---- MODULE Spec2Model ----
(***************************************************************************)
(* A model of scraper.js: the development-application scraper of the       *)
(* District Council of Lower Eyre Peninsula.  parsePdf rebuilds a table    *)
(* from the grid lines and the positioned text fragments of each page and  *)
(* turns every row into a development application record.                 *)
(*                                                                         *)
(* Texts are sequences of one-character strings, coordinates are integers, *)
(* "undefined"/"null" is the empty sequence and a defined value v is <<v>>.*)
(***************************************************************************)
EXTENDS Integers, Sequences, FiniteSets, TLC

VARIABLES
    pc,                      \* position of the running function
    pdf,                     \* the decoded document: a sequence of pages
    pageIndex,               \* parsePdf: the page loop's index
    page,                    \* parsePdf: the page being processed, <<>> before the first
    cells,                   \* parsePdf: the cells of the current page
    elements,                \* parsePdf: the text elements of the current page
    rows,                    \* parsePdf: the rows of the current page
    headings,                \* parsePdf: the six heading cells of the current page
    rowIndex,                \* parsePdf: the row loop's index
    outcome,                 \* parsePdf: the branch the last page or row step ended in
    developmentApplications, \* parsePdf: the records collected so far
    returned,                \* parsePdf: the value the promise resolved to, <<>> while pending or rejected
    log,                     \* console.log lines written for the current page
    operators,               \* parseCells: the operator list being walked
    opIndex,                 \* parseCells: index of the next operator
    walk,                    \* parseCells: lines, previousRectangle, transformStack, transform
    horizontalLines,         \* parseCells: classified horizontal lines
    verticalLines,           \* parseCells: classified vertical lines
    StreetNames,             \* global: street name -> suburbs
    StreetSuffixes,          \* global: street suffix abbreviation -> suffix
    SuburbNames,             \* global: suburb name -> suburb, state and post code
    arguments,               \* a function called on its own: its name and its arguments
    returnValue,             \* a function called on its own: the value it returned, <<>> before
    database,                \* the rows of the table [data], in the order of their insertion
    main                     \* main: its position, the links of the page, pdfUrls, selectedPdfUrls

vars == <<pc, pdf, pageIndex, page, cells, elements, rows, headings, rowIndex, outcome,
          developmentApplications, returned, log, operators, opIndex, walk,
          horizontalLines, verticalLines, StreetNames, StreetSuffixes, SuburbNames,
          arguments, returnValue, database, main>>

\* ------------------------------------------------------------------ bounds

\* Pages of a multi-page document.
MaxPages == 2
\* Table cells of a page whose text differs from the well-formed page.
MaxDeviations == 2
\* Committed rectangles of an operator list drawn for parseCells alone.
MaxLines == 5

\* ------------------------------------------------------------------ values

Undefined == <<>>
Some(v) == <<v>>
IsDefined(o) == o # <<>>
Get(o) == o[1]

Max(a, b) == IF a >= b THEN a ELSE b
Min(a, b) == IF a <= b THEN a ELSE b
Abs(a) == IF a >= 0 THEN a ELSE -a

\* ------------------------------------------------------------------ text

Digits == <<"0", "1", "2", "3", "4", "5", "6", "7", "8", "9">>
UpperLetters == <<"A", "B", "C", "D", "E", "F", "G", "H", "I", "J", "K", "L", "M",
                  "N", "O", "P", "Q", "R", "S", "T", "U", "V", "W", "X", "Y", "Z">>
LowerLetters == <<"a", "b", "c", "d", "e", "f", "g", "h", "i", "j", "k", "l", "m",
                  "n", "o", "p", "q", "r", "s", "t", "u", "v", "w", "x", "y", "z">>

IsDigit(c) == c \in {Digits[i] : i \in 1..10}
DigitValue(c) == (CHOOSE i \in 1..10 : Digits[i] = c) - 1
\* The characters the regular expression class \s and String.trim treat as white space.
IsSpace(c) == c \in {" ", "\t"}

LowerOf == [c \in {UpperLetters[i] : i \in 1..26} |->
               LowerLetters[CHOOSE i \in 1..26 : UpperLetters[i] = c]]
UpperOf == [c \in {LowerLetters[i] : i \in 1..26} |->
               UpperLetters[CHOOSE i \in 1..26 : LowerLetters[i] = c]]
ToLowerChar(c) == IF c \in DOMAIN LowerOf THEN LowerOf[c] ELSE c
ToUpperChar(c) == IF c \in DOMAIN UpperOf THEN UpperOf[c] ELSE c
ToLowerCase(s) == [i \in 1..Len(s) |-> ToLowerChar(s[i])]
ToUpperCase(s) == [i \in 1..Len(s) |-> ToUpperChar(s[i])]

\* String.trim.
RECURSIVE TrimStart(_)
TrimStart(s) == IF s # <<>> /\ IsSpace(Head(s)) THEN TrimStart(Tail(s)) ELSE s
RECURSIVE TrimEnd(_)
TrimEnd(s) ==
    IF s # <<>> /\ IsSpace(s[Len(s)]) THEN TrimEnd(SubSeq(s, 1, Len(s) - 1)) ELSE s
Trim(s) == TrimEnd(TrimStart(s))

\* String.replace(/\s/g, "").
StripSpace(s) == SelectSeq(s, LAMBDA c : ~IsSpace(c))

\* String.replace(/\s\s+/g, " "): every run of two or more white space characters
\* becomes one space; a single white space character is kept as it is.
RECURSIVE CollapseSpace(_)
CollapseSpace(s) ==
    IF s = <<>> THEN <<>>
    ELSE IF IsSpace(s[1]) /\ Len(s) >= 2 /\ IsSpace(s[2])
         THEN <<" ">> \o CollapseSpace(TrimStart(s))
         ELSE <<s[1]>> \o CollapseSpace(Tail(s))

\* Array.join.
RECURSIVE Join(_, _)
Join(texts, sep) ==
    IF texts = <<>> THEN <<>>
    ELSE IF Len(texts) = 1 THEN texts[1]
    ELSE texts[1] \o sep \o Join(Tail(texts), sep)

\* String.split(" "): the pieces between single spaces (empty pieces included).
RECURSIVE SplitFrom(_, _)
SplitFrom(s, piece) ==
    IF s = <<>> THEN <<piece>>
    ELSE IF s[1] = " " THEN <<piece>> \o SplitFrom(Tail(s), <<>>)
    ELSE SplitFrom(Tail(s), Append(piece, s[1]))
Split(s) == SplitFrom(s, <<>>)

\* String.lastIndexOf(","), counted from 1; 0 when there is no comma.
LastIndexOfComma(s) ==
    IF \E i \in 1..Len(s) : s[i] = ","
    THEN CHOOSE i \in 1..Len(s) : s[i] = "," /\ \A j \in (i + 1)..Len(s) : s[j] # ","
    ELSE 0

\* String.endsWith.
EndsWith(s, t) == Len(s) >= Len(t) /\ SubSeq(s, Len(s) - Len(t) + 1, Len(s)) = t

\* A test of the application number that asks for some text only.
ApplicationNumberPresent(s) == s # <<>>

\* The expression between ^ and $: s is a digit group, a slash, a digit group, a slash
\* and a digit group, and nothing else.
ApplicationNumberRegexAnchored(s) ==
    \E a \in 2..Len(s), b \in 4..Len(s) :
        /\ a + 1 < b /\ b < Len(s)
        /\ s[a] = "/" /\ s[b] = "/"
        /\ \A k \in (1..Len(s)) \ {a, b} : IsDigit(s[k])

\* /[0-9]+\/[0-9]+\/[0-9]+/.test(s): the expression is not anchored, so it looks for
\* a digit group, a slash, a digit group, a slash and a digit group anywhere in s.
ApplicationNumberRegexTest(s) ==
    \E a \in 2..Len(s), b \in 4..Len(s) :
        /\ a + 1 < b /\ b < Len(s)
        /\ s[a] = "/" /\ s[b] = "/"
        /\ IsDigit(s[a - 1]) /\ IsDigit(s[b + 1])
        /\ \A k \in (a + 1)..(b - 1) : IsDigit(s[k])

\* ------------------------------------------------------------------ gazetteer

\* The lines of streetnames.txt, streetsuffixes.txt and suburbnames.txt, each already
\* cut at its comma.
StreetNamesFile == <<
    <<<<"S", "M", "Y", "T", "H", " ", "R", "O", "A", "D">>, <<"T", "O", "W", "N", "S", "V", "I", "L", "L", "E">>>>,
    <<<<"M", "A", "I", "N", " ", "S", "T", "R", "E", "E", "T">>, <<"T", "O", "W", "N", "S", "V", "I", "L", "L", "E">>>>,
    <<<<"B", "R", "O", "A", "D", "W", "A", "Y">>, <<"T", "O", "W", "N", "S", "V", "I", "L", "L", "E">>>>,
    <<<<"H", "I", "G", "H", " ", "T", "E", "R", "R", "A", "C", "E", " ", "N", "O", "R", "T", "H">>,
      <<"M", "O", "U", "N", "T", " ", "H", "O", "P", "E">>>> >>
StreetSuffixesFile == <<
    <<<<"R", "D">>, <<"R", "O", "A", "D">>>>,
    <<<<"S", "T">>, <<"S", "T", "R", "E", "E", "T">>>> >>
SuburbNamesFile == <<
    <<<<"T", "O", "W", "N", "S", "V", "I", "L", "L", "E">>, <<"T", "O", "W", "N", "S", "V", "I", "L", "L", "E", " ", "S", "A", " ", "5", "0", "0", "0">>>>,
    <<<<"M", "O", "U", "N", "T", " ", "H", "O", "P", "E">>, <<"M", "O", "U", "N", "T", " ", "H", "O", "P", "E", " ", "S", "A", " ", "5", "6", "0", "7">>>> >>

\* An object used as a dictionary is a sequence of <<key, value>> pairs in insertion
\* order.  Object.keys lists the keys in that order.
Keys(object) == [i \in 1..Len(object) |-> object[i][1]]
HasKey(object, key) == \E i \in 1..Len(object) : object[i][1] = key
Lookup(object, key) == object[CHOOSE i \in 1..Len(object) : object[i][1] = key][2]
\* object[key] = value: an existing key keeps its place.
Assign(object, key, value) ==
    IF HasKey(object, key)
    THEN [i \in 1..Len(object) |-> IF object[i][1] = key THEN <<key, value>> ELSE object[i]]
    ELSE Append(object, <<key, value>>)

StartsWith(s, t) == Len(s) >= Len(t) /\ SubSeq(s, 1, Len(t)) = t
Substring(s, from) == SubSeq(s, from + 1, Len(s))

RECURSIVE readStreetNames(_, _)
readStreetNames(lines, object) ==
    IF lines = <<>> THEN object
    ELSE LET streetName == Trim(ToUpperCase(lines[1][1]))
             suburbName == Trim(ToUpperCase(lines[1][2]))
             known == IF HasKey(object, streetName) THEN Lookup(object, streetName) ELSE <<>>
         IN  readStreetNames(Tail(lines), Assign(object, streetName, Append(known, suburbName)))

RECURSIVE readStreetSuffixes(_, _)
readStreetSuffixes(lines, object) ==
    IF lines = <<>> THEN object
    ELSE readStreetSuffixes(Tail(lines),
             Assign(object, Trim(ToUpperCase(lines[1][1])), Trim(ToUpperCase(lines[1][2]))))

MountPrefix == <<"M", "O", "U", "N", "T", " ">>
RECURSIVE readSuburbNames(_, _)
readSuburbNames(lines, object) ==
    IF lines = <<>> THEN object
    ELSE LET suburbName == Trim(ToUpperCase(lines[1][1]))
             canonical == Trim(ToUpperCase(lines[1][2]))
             rest == Substring(suburbName, Len(MountPrefix))
             plain == Assign(object, suburbName, canonical)
             withMount ==
                 Assign(Assign(Assign(plain,
                     <<"M", "T", " ">> \o rest, canonical),
                     <<"M", "T", ".">> \o rest, canonical),
                     <<"M", "T", ".", " ">> \o rest, canonical)
         IN  readSuburbNames(Tail(lines),
                 IF StartsWith(suburbName, MountPrefix) THEN withMount ELSE plain)

\* The three global objects as readAddressInformation leaves them.
readAddressInformation ==
    [StreetNames |-> readStreetNames(StreetNamesFile, <<>>),
     StreetSuffixes |-> readStreetSuffixes(StreetSuffixesFile, <<>>),
     SuburbNames |-> readSuburbNames(SuburbNamesFile, <<>>)]

\* ------------------------------------------------------------------ didyoumean2

\* One row of the edit-distance table: the distances from a prefix of a that ends in
\* the character c to every prefix of b, from the row of the prefix one shorter.  The
\* row so far holds the distances to the prefixes of b shorter than Len(row).
RECURSIVE LevenRow(_, _, _, _)
LevenRow(previous, c, b, row) ==
    IF Len(row) > Len(b) THEN row
    ELSE LET j == Len(row)
             cost == IF c = b[j] THEN 0 ELSE 1
             best == Min(Min(previous[j + 1] + 1, row[j] + 1), previous[j] + cost)
         IN  LevenRow(previous, c, b, Append(row, best))
\* The rows of the table, one for every prefix of a.
RECURSIVE LevenTable(_, _, _)
LevenTable(a, b, table) ==
    IF Len(table) > Len(a) THEN table
    ELSE LevenTable(a, b,
             Append(table, LevenRow(table[Len(table)], a[Len(table)], b, <<Len(table)>>)))
\* leven(a, b): the Levenshtein distance.
Leven(a, b) ==
    LevenTable(a, b, <<[j \in 1..(Len(b) + 1) |-> j - 1]>>)[Len(a) + 1][Len(b) + 1]

\* String.replace(/\s+/g, " ").
RECURSIVE CollapseAllSpace(_)
CollapseAllSpace(s) ==
    IF s = <<>> THEN <<>>
    ELSE IF IsSpace(s[1]) THEN <<" ">> \o CollapseAllSpace(TrimStart(s))
    ELSE <<s[1]>> \o CollapseAllSpace(Tail(s))
\* didyoumean2's normalisation under trimSpaces: true and caseSensitive: false.
NormalizeString(s) == ToLowerCase(CollapseAllSpace(Trim(s)))

\* didyoumean2 with returnType FIRST_CLOSEST_MATCH and thresholdType EDIT_DISTANCE:
\* the first entry of matchList at the least edit distance from the input, when that
\* distance is at most the threshold; null (Undefined) otherwise.
didyoumean(input, matchList, threshold) ==
    LET scores == [i \in 1..Len(matchList) |->
                      Leven(NormalizeString(input), NormalizeString(matchList[i]))]
        least == CHOOSE d \in {scores[i] : i \in 1..Len(matchList)} :
                     \A i \in 1..Len(matchList) : d <= scores[i]
        first == CHOOSE i \in 1..Len(matchList) :
                     scores[i] = least /\ \A j \in 1..(i - 1) : scores[j] # least
    IN  IF matchList = <<>> THEN Undefined
        ELSE IF least <= threshold THEN Some(matchList[first])
        ELSE Undefined

\* ------------------------------------------------------------------ addresses

\* Array.slice(-count): the last count entries, or all of them when there are fewer.
SliceLast(tokens, count) == SubSeq(tokens, Max(1, Len(tokens) - count + 1), Len(tokens))
\* Array.splice(-count, count): what is left before the last count entries.
SpliceLast(tokens, count) == SubSeq(tokens, 1, Max(0, Len(tokens) - count))

\* The tokens of formatStreetName after the street suffix has been expanded.
ExpandedTokens(text) ==
    LET tokens == Split(ToUpperCase(Trim(text)))
        token == tokens[Len(tokens)]
    IN  Append(SubSeq(tokens, 1, Len(tokens) - 1),
               IF HasKey(StreetSuffixes, token) THEN Lookup(StreetSuffixes, token) ELSE token)

\* An exact scan that leaves out the window of two tokens.
ExactWindowsFromThree(tokens) ==
    {index \in 3..6 : HasKey(StreetNames, Join(SliceLast(tokens, index), <<" ">>))}

\* The first window size, from 6 down to 2, whose tokens are a known street name.
ExactWindows(tokens) ==
    {index \in 2..6 : HasKey(StreetNames, Join(SliceLast(tokens, index), <<" ">>))}
\* A threshold of one spelling error fewer for every window size.
FuzzyThresholdTight(index) == 6 - index

\* The window sizes whose tokens match a known street name with 7 - index spelling errors.
FuzzyThreshold(index) == 7 - index
FuzzyMatch(tokens, index) ==
    didyoumean(Join(SliceLast(tokens, index), <<" ">>), Keys(StreetNames), FuzzyThreshold(index))
FuzzyWindows(tokens) == {index \in 2..6 : IsDefined(FuzzyMatch(tokens, index))}
Largest(S) == CHOOSE n \in S : \A m \in S : m <= n

\* A formatStreetName that returns the upper-cased, suffix-expanded tokens when no
\* street is found, in place of the text it was given.
formatStreetNameTidied(text) ==
    LET tokens == ExpandedTokens(text)
        index == Largest(FuzzyWindows(tokens))
    IN  IF ExactWindows(tokens) # {} THEN Join(tokens, <<" ">>)
        ELSE IF FuzzyWindows(tokens) # {}
        THEN Trim(Join(SpliceLast(tokens, index), <<" ">>) \o <<" ">>
                  \o Get(FuzzyMatch(tokens, index)))
        ELSE Join(tokens, <<" ">>)

formatStreetName(text) ==
    LET tokens == ExpandedTokens(text)
        index == Largest(FuzzyWindows(tokens))
    IN  IF ExactWindows(tokens) # {} THEN Join(tokens, <<" ">>)
        ELSE IF FuzzyWindows(tokens) # {}
        THEN Trim(Join(SpliceLast(tokens, index), <<" ">>) \o <<" ">>
                  \o Get(FuzzyMatch(tokens, index)))
        ELSE text

\* String.replace of one of the " TCE ..." patterns, every occurrence.
RECURSIVE ReplaceAll(_, _, _)
ReplaceAll(s, pattern, replacement) ==
    IF Len(s) < Len(pattern) THEN s
    ELSE IF StartsWith(s, pattern)
         THEN replacement \o ReplaceAll(Substring(s, Len(pattern)), pattern, replacement)
         ELSE <<s[1]>> \o ReplaceAll(Tail(s), pattern, replacement)
TerraceReplacements(address) ==
    ReplaceAll(ReplaceAll(ReplaceAll(ReplaceAll(address,
        <<" ", "T", "C", "E", " ", "N", "T", "H">>, <<" ", "T", "E", "R", "R", "A", "C", "E", " ", "N", "O", "R", "T", "H">>),
        <<" ", "T", "C", "E", " ", "S", "T", "H">>, <<" ", "T", "E", "R", "R", "A", "C", "E", " ", "S", "O", "U", "T", "H">>),
        <<" ", "T", "C", "E", " ", "E", "A", "S", "T">>, <<" ", "T", "E", "R", "R", "A", "C", "E", " ", "E", "A", "S", "T">>),
        <<" ", "T", "C", "E", " ", "W", "E", "S", "T">>, <<" ", "T", "E", "R", "R", "A", "C", "E", " ", "W", "E", "S", "T">>)

\* The suburb formatAddress finds for the text after the last comma, or Undefined.
SuburbThreshold == 2
\* A suburb match that allows one spelling error more.
MatchSuburbLoose(suburbName) == didyoumean(suburbName, Keys(SuburbNames), SuburbThreshold + 1)

MatchSuburb(suburbName) == didyoumean(suburbName, Keys(SuburbNames), SuburbThreshold)

formatAddress(text) ==
    LET address == TerraceReplacements(Trim(text))
        commaIndex == LastIndexOfComma(address)
        streetName == SubSeq(address, 1, commaIndex - 1)
        suburbName == MatchSuburb(Substring(address, commaIndex))
    IN  IF commaIndex = 0 THEN address
        ELSE IF ~IsDefined(suburbName) THEN address
        ELSE formatStreetName(streetName) \o <<",", " ">> \o Lookup(SuburbNames, Get(suburbName))

\* ------------------------------------------------------------------ geometry

Rectangle(x, y, width, height) == [x |-> x, y |-> y, width |-> width, height |-> height]

\* An intersection that asks for an overlap on either axis rather than on both.
intersectEitherAxis(rectangle1, rectangle2) ==
    LET x1 == Max(rectangle1.x, rectangle2.x)
        y1 == Max(rectangle1.y, rectangle2.y)
        x2 == Min(rectangle1.x + rectangle1.width, rectangle2.x + rectangle2.width)
        y2 == Min(rectangle1.y + rectangle1.height, rectangle2.y + rectangle2.height)
    IN  IF x2 >= x1 \/ y2 >= y1 THEN Rectangle(x1, y1, x2 - x1, y2 - y1)
        ELSE Rectangle(0, 0, 0, 0)

intersect(rectangle1, rectangle2) ==
    LET x1 == Max(rectangle1.x, rectangle2.x)
        y1 == Max(rectangle1.y, rectangle2.y)
        x2 == Min(rectangle1.x + rectangle1.width, rectangle2.x + rectangle2.width)
        y2 == Min(rectangle1.y + rectangle1.height, rectangle2.y + rectangle2.height)
    IN  IF x2 >= x1 /\ y2 >= y1 THEN Rectangle(x1, y1, x2 - x1, y2 - y1)
        ELSE Rectangle(0, 0, 0, 0)

getArea(rectangle) == rectangle.width * rectangle.height

\* A percentage is the fraction <<numerator, denominator>>, denominator > 0: the
\* quotient the code computes, kept exact.
Exceeds(percentage, limit) == percentage[1] > limit * percentage[2]

getPercentageOfElementInCell(element, cell) ==
    LET elementArea == getArea(element)
        intersectionArea == getArea(intersect(cell, element))
    IN  IF elementArea = 0 THEN <<0, 1>> ELSE <<intersectionArea * 100, elementArea>>

\* A horizontal overlap taken as a part of the second rectangle, not of the union.
getHorizontalOverlapOfSecond(rectangle1, rectangle2) ==
    IF ~IsDefined(rectangle1) \/ ~IsDefined(rectangle2) THEN <<0, 1>>
    ELSE LET startX1 == Get(rectangle1).x
             endX1 == Get(rectangle1).x + Get(rectangle1).width
             startX2 == Get(rectangle2).x
             endX2 == Get(rectangle2).x + Get(rectangle2).width
             intersectionWidth == Min(endX1, endX2) - Max(startX1, startX2)
         IN  IF \/ startX1 >= endX2 \/ endX1 <= startX2
                \/ Get(rectangle1).width = 0 \/ Get(rectangle2).width = 0
             THEN <<0, 1>>
             ELSE <<intersectionWidth * 100, Get(rectangle2).width>>

\* The rectangles are optional: a heading cell that was not found is Undefined.
getHorizontalOverlapPercentage(rectangle1, rectangle2) ==
    IF ~IsDefined(rectangle1) \/ ~IsDefined(rectangle2) THEN <<0, 1>>
    ELSE LET startX1 == Get(rectangle1).x
             endX1 == Get(rectangle1).x + Get(rectangle1).width
             startX2 == Get(rectangle2).x
             endX2 == Get(rectangle2).x + Get(rectangle2).width
             intersectionWidth == Min(endX1, endX2) - Max(startX1, startX2)
             unionWidth == Max(endX1, endX2) - Min(startX1, startX2)
         IN  IF \/ startX1 >= endX2 \/ endX1 <= startX2
                \/ Get(rectangle1).width = 0 \/ Get(rectangle2).width = 0
             THEN <<0, 1>>
             ELSE <<intersectionWidth * 100, unionWidth>>

\* The comparers handed to Array.sort.
verticalLineComparer(a, b) == IF a.x > b.x THEN 1 ELSE IF a.x < b.x THEN -1 ELSE 0
horizontalLineComparer(a, b) == IF a.y > b.y THEN 1 ELSE IF a.y < b.y THEN -1 ELSE 0
cellComparer(a, b) ==
    IF Abs(a.y - b.y) < 2
    THEN (IF a.x > b.x THEN 1 ELSE IF a.x < b.x THEN -1 ELSE 0)
    ELSE (IF a.y > b.y THEN 1 ELSE -1)
elementComparer(a, b) ==
    IF Abs(a.y - b.y) < 1
    THEN (IF a.x > b.x THEN 1 ELSE IF a.x < b.x THEN -1 ELSE 0)
    ELSE (IF a.y > b.y THEN 1 ELSE -1)
rowComparer(a, b) == IF a[1].y > b[1].y THEN 1 ELSE IF a[1].y < b[1].y THEN -1 ELSE 0
rowCellComparer(a, b) == IF a.x > b.x THEN 1 ELSE IF a.x < b.x THEN -1 ELSE 0

Compare(comparer, a, b) ==
    CASE comparer = "verticalLineComparer" -> verticalLineComparer(a, b)
      [] comparer = "horizontalLineComparer" -> horizontalLineComparer(a, b)
      [] comparer = "cellComparer" -> cellComparer(a, b)
      [] comparer = "elementComparer" -> elementComparer(a, b)
      [] comparer = "rowComparer" -> rowComparer(a, b)
      [] comparer = "rowCellComparer" -> rowCellComparer(a, b)

\* Array.sort with a comparer, as a stable insertion sort.
RECURSIVE InsertSorted(_, _, _)
InsertSorted(sorted, item, comparer) ==
    IF sorted # <<>> /\ Compare(comparer, sorted[Len(sorted)], item) > 0
    THEN Append(InsertSorted(SubSeq(sorted, 1, Len(sorted) - 1), item, comparer),
                sorted[Len(sorted)])
    ELSE Append(sorted, item)
RECURSIVE SortFrom(_, _, _)
SortFrom(sorted, rest, comparer) ==
    IF rest = <<>> THEN sorted
    ELSE SortFrom(InsertSorted(sorted, rest[1], comparer), Tail(rest), comparer)
Sort(array, comparer) == SortFrom(<<>>, array, comparer)

\* Array.find: the first entry that satisfies the test, or Undefined.
Find(array, Test(_)) ==
    IF \E i \in 1..Len(array) : Test(array[i])
    THEN Some(array[CHOOSE i \in 1..Len(array) :
                       Test(array[i]) /\ \A j \in 1..(i - 1) : ~Test(array[j])])
    ELSE Undefined

\* ------------------------------------------------------------------ parseCells

IdentityTransform == <<1, 0, 0, 1, 0, 0>>

\* pdfjs.Util.transform(m1, m2).
UtilTransform(m1, m2) ==
    << m1[1] * m2[1] + m1[3] * m2[2],
       m1[2] * m2[1] + m1[4] * m2[2],
       m1[1] * m2[3] + m1[3] * m2[4],
       m1[2] * m2[3] + m1[4] * m2[4],
       m1[1] * m2[5] + m1[3] * m2[6] + m1[5],
       m1[2] * m2[5] + m1[4] * m2[6] + m1[6] >>
\* pdfjs.Util.applyTransform(p, m).
UtilApplyTransform(p, m) ==
    << p[1] * m[1] + p[2] * m[3] + m[5], p[1] * m[2] + p[2] * m[4] + m[6] >>

\* An operator of the operator list: fnArray[index] with argsArray[index], which is
\* the six numbers of a transform, or the sub-operations and the flat argument
\* buffer of a constructPath.
Operator(fn, subOps, args) == [fn |-> fn, subOps |-> subOps, args |-> args]
OpSave == Operator("save", <<>>, <<>>)
OpRestore == Operator("restore", <<>>, <<>>)
OpTransform(m) == Operator("transform", <<>>, m)
OpFill == Operator("fill", <<>>, <<>>)
OpEoFill == Operator("eoFill", <<>>, <<>>)
OpStroke == Operator("stroke", <<>>, <<>>)
OpRectangle(x, y, width, height) ==
    Operator("constructPath", <<"rectangle">>, <<x, y, width, height>>)

\* The locals of the walk over the operator list; transform is Undefined after a
\* restore that found the stack empty, and thrown is set by the TypeError that
\* reading a component of an undefined transform raises.
WalkStart ==
    [lines |-> <<>>, previousRectangle |-> Undefined,
     transformStack |-> <<Some(IdentityTransform)>>,
     transform |-> Some(IdentityTransform), thrown |-> FALSE]

\* The sub-operations of one constructPath, from sub-operation operationIndex on.
RECURSIVE WalkPath(_, _, _, _)
WalkPath(state, operator, operationIndex, argumentIndex) ==
    IF state.thrown \/ operationIndex > Len(operator.subOps) THEN state
    ELSE IF operator.subOps[operationIndex] \in {"moveTo", "lineTo"}
    THEN WalkPath(state, operator, operationIndex + 1, argumentIndex + 2)
    ELSE IF operator.subOps[operationIndex] = "rectangle"
    THEN IF ~IsDefined(state.transform)
         THEN [state EXCEPT !.thrown = TRUE]
         ELSE LET x == operator.args[argumentIndex]
                  y == operator.args[argumentIndex + 1]
                  width == operator.args[argumentIndex + 2]
                  height == operator.args[argumentIndex + 3]
                  p1 == UtilApplyTransform(<<x, y>>, Get(state.transform))
                  p2 == UtilApplyTransform(<<x + width, y + height>>, Get(state.transform))
                  rectangle == Rectangle(p1[1], p1[2], p2[1] - p1[1], p2[2] - p1[2])
              IN  WalkPath([state EXCEPT !.previousRectangle = Some(rectangle)],
                           operator, operationIndex + 1, argumentIndex + 4)
    ELSE WalkPath(state, operator, operationIndex + 1, argumentIndex)

\* An iteration whose transform is composed in the other order.
WalkOperatorComposeBefore(state, operator) ==
    IF operator.fn = "restore"
    THEN IF state.transformStack = <<>>
         THEN [state EXCEPT !.transform = Undefined]
         ELSE [state EXCEPT
                  !.transform = state.transformStack[Len(state.transformStack)],
                  !.transformStack = SubSeq(state.transformStack, 1,
                                            Len(state.transformStack) - 1)]
    ELSE IF operator.fn = "save"
    THEN [state EXCEPT !.transformStack = Append(state.transformStack, state.transform)]
    ELSE IF operator.fn = "transform"
    THEN IF ~IsDefined(state.transform)
         THEN [state EXCEPT !.thrown = TRUE]
         ELSE [state EXCEPT
                  !.transform = Some(UtilTransform(operator.args, Get(state.transform)))]
    ELSE IF operator.fn = "constructPath"
    THEN WalkPath(state, operator, 1, 1)
    ELSE IF operator.fn \in {"fill", "eoFill"} /\ IsDefined(state.previousRectangle)
    THEN [state EXCEPT !.lines = Append(state.lines, Get(state.previousRectangle)),
                       !.previousRectangle = Undefined]
    ELSE state

\* An iteration whose fill leaves the committed rectangle pending.
WalkOperatorKeepPending(state, operator) ==
    IF operator.fn = "restore"
    THEN IF state.transformStack = <<>>
         THEN [state EXCEPT !.transform = Undefined]
         ELSE [state EXCEPT
                  !.transform = state.transformStack[Len(state.transformStack)],
                  !.transformStack = SubSeq(state.transformStack, 1,
                                            Len(state.transformStack) - 1)]
    ELSE IF operator.fn = "save"
    THEN [state EXCEPT !.transformStack = Append(state.transformStack, state.transform)]
    ELSE IF operator.fn = "transform"
    THEN IF ~IsDefined(state.transform)
         THEN [state EXCEPT !.thrown = TRUE]
         ELSE [state EXCEPT
                  !.transform = Some(UtilTransform(Get(state.transform), operator.args))]
    ELSE IF operator.fn = "constructPath"
    THEN WalkPath(state, operator, 1, 1)
    ELSE IF operator.fn \in {"fill", "eoFill"} /\ IsDefined(state.previousRectangle)
    THEN [state EXCEPT !.lines = Append(state.lines, Get(state.previousRectangle))]
    ELSE state

\* One iteration of the loop over the operator list.
WalkOperator(state, operator) ==
    IF operator.fn = "restore"
    THEN IF state.transformStack = <<>>
         THEN [state EXCEPT !.transform = Undefined]
         ELSE [state EXCEPT
                  !.transform = state.transformStack[Len(state.transformStack)],
                  !.transformStack = SubSeq(state.transformStack, 1,
                                            Len(state.transformStack) - 1)]
    ELSE IF operator.fn = "save"
    THEN [state EXCEPT !.transformStack = Append(state.transformStack, state.transform)]
    ELSE IF operator.fn = "transform"
    THEN IF ~IsDefined(state.transform)
         THEN [state EXCEPT !.thrown = TRUE]
         ELSE [state EXCEPT
                  !.transform = Some(UtilTransform(Get(state.transform), operator.args))]
    ELSE IF operator.fn = "constructPath"
    THEN WalkPath(state, operator, 1, 1)
    ELSE IF operator.fn \in {"fill", "eoFill"} /\ IsDefined(state.previousRectangle)
    THEN [state EXCEPT !.lines = Append(state.lines, Get(state.previousRectangle)),
                       !.previousRectangle = Undefined]
    ELSE state

\* The whole loop: the state after the last operator, or the state at the throw.
RECURSIVE WalkOperators(_, _, _)
WalkOperators(state, operatorList, index) ==
    IF state.thrown \/ index > Len(operatorList) THEN state
    ELSE WalkOperators(WalkOperator(state, operatorList[index]), operatorList, index + 1)

\* The test of a horizontal line with strict comparisons.
IsHorizontalLineStrict(line) == line.height < 2 /\ line.width > 200

IsHorizontalLine(line) == line.height <= 2 /\ line.width >= 200
IsVerticalLine(line) == ~IsHorizontalLine(line) /\ line.width <= 2 /\ line.height >= 10
ClassifyHorizontal(lines) == SelectSeq(lines, IsHorizontalLine)
ClassifyVertical(lines) == SelectSeq(lines, IsVerticalLine)

Cell(x, y, width, height) ==
    [elements |-> <<>>, x |-> x, y |-> y, width |-> width, height |-> height]

\* A cell whose height is the ordinate of the next horizontal line.
GridCellAbsolute(horizontal, vertical, h, v) ==
    Cell(vertical[v].x, horizontal[h].y,
         vertical[v + 1].x - vertical[v].x, horizontal[h + 1].y)

\* The cell of horizontal lines h, h + 1 and vertical lines v, v + 1.
GridCell(horizontal, vertical, h, v) ==
    Cell(vertical[v].x, horizontal[h].y,
         vertical[v + 1].x - vertical[v].x, horizontal[h + 1].y - horizontal[h].y)

\* The nested loops over the sorted lines: row by row, each row left to right.
ConstructCells(horizontal, vertical) ==
    LET columns == Len(vertical) - 1
        count == IF Len(horizontal) < 2 \/ Len(vertical) < 2 THEN 0
                 ELSE (Len(horizontal) - 1) * columns
    IN  [k \in 1..count |->
            GridCell(horizontal, vertical, ((k - 1) \div columns) + 1, ((k - 1) % columns) + 1)]

\* parseCells after the walk: classify the lines, sort them, construct the cells.
CellsOfLines(lines) ==
    ConstructCells(Sort(ClassifyHorizontal(lines), "horizontalLineComparer"),
                   Sort(ClassifyVertical(lines), "verticalLineComparer"))


\* ------------------------------------------------------------------ moment

\* moment(text, "D/MM/YYYY", true): strict parsing takes one or two digits of day, a
\* slash, two digits of month, a slash and four digits of year, and nothing else.
\* The result is <<year, month, day>>, or Undefined for an invalid moment.
IsLeapYear(year) == (year % 4 = 0 /\ year % 100 # 0) \/ year % 400 = 0
DaysInMonth(year, month) ==
    IF month = 2 THEN (IF IsLeapYear(year) THEN 29 ELSE 28)
    ELSE IF month \in {4, 6, 9, 11} THEN 30 ELSE 31
RECURSIVE NumberOf(_)
NumberOf(digits) ==
    IF digits = <<>> THEN 0
    ELSE 10 * NumberOf(SubSeq(digits, 1, Len(digits) - 1)) + DigitValue(digits[Len(digits)])
AllDigits(s) == \A i \in 1..Len(s) : IsDigit(s[i])
MomentStrict(text) ==
    LET dayLength == Len(text) - 8
        dayText == SubSeq(text, 1, dayLength)
        monthText == SubSeq(text, dayLength + 2, dayLength + 3)
        yearText == SubSeq(text, dayLength + 5, dayLength + 8)
        day == NumberOf(dayText)
        month == NumberOf(monthText)
        year == NumberOf(yearText)
    IN  IF /\ dayLength \in {1, 2}
           /\ text[dayLength + 1] = "/" /\ text[dayLength + 4] = "/"
           /\ AllDigits(dayText) /\ AllDigits(monthText) /\ AllDigits(yearText)
           /\ month \in 1..12 /\ day \in 1..DaysInMonth(year, month)
        THEN Some(<<year, month, day>>)
        ELSE Undefined
\* moment.format("YYYY-MM-DD").
RECURSIVE Padded(_, _)
Padded(number, width) ==
    IF width = 0 THEN <<>>
    ELSE Append(Padded(number \div 10, width - 1), Digits[(number % 10) + 1])
FormatDate(date) ==
    Padded(date[1], 4) \o <<"-">> \o Padded(date[2], 2) \o <<"-">> \o Padded(date[3], 2)

\* ------------------------------------------------------------------ parsePdf

\* Math.sqrt on the squares the text transforms of the model give.
Sqrt(n) == CHOOSE r \in 0..n : r * r <= n /\ n < (r + 1) * (r + 1)

\* A text item of page.getTextContent(): str, the six numbers of transform, width.
parseElement(item) ==
    [text |-> item.str, x |-> item.transform[5], y |-> item.transform[6],
     width |-> item.width,
     height |-> Sqrt(item.transform[3] * item.transform[3]
                     + item.transform[4] * item.transform[4])]
parseElements(items) == [i \in 1..Len(items) |-> parseElement(items[i])]

\* An inversion that leaves the height out: y = -y.
InvertYWithoutHeight(rectangle) == [rectangle EXCEPT !.y = -rectangle.y]

\* y = -(y + height), for a cell or an element.
InvertY(rectangle) == [rectangle EXCEPT !.y = -(rectangle.y + rectangle.height)]
InvertAll(rectangles) == [i \in 1..Len(rectangles) |-> InvertY(rectangles[i])]

\* The index of the cell that owns the element, or 0.
OwnerLimit == 50
\* An owner test that accepts an element exactly half in the cell.
IsOwnerFromHalf(element, cell) ==
    LET percentage == getPercentageOfElementInCell(element, cell)
    IN  percentage[1] >= OwnerLimit * percentage[2]

IsOwner(element, cell) == Exceeds(getPercentageOfElementInCell(element, cell), OwnerLimit)
OwnerCell(element, cellList) ==
    IF \E i \in 1..Len(cellList) : IsOwner(element, cellList[i])
    THEN CHOOSE i \in 1..Len(cellList) :
             IsOwner(element, cellList[i]) /\ \A j \in 1..(i - 1) : ~IsOwner(element, cellList[j])
    ELSE 0
\* A loop that puts each element in front of the elements of its owning cell.
RECURSIVE AllocateElementsInFront(_, _)
AllocateElementsInFront(cellList, elementList) ==
    IF elementList = <<>> THEN cellList
    ELSE LET owner == OwnerCell(elementList[1], cellList)
         IN  AllocateElementsInFront(
                 IF owner = 0 THEN cellList
                 ELSE [cellList EXCEPT ![owner].elements = <<elementList[1]>> \o @],
                 Tail(elementList))

\* The loop that allocates each element to its owning cell.
RECURSIVE AllocateElements(_, _)
AllocateElements(cellList, elementList) ==
    IF elementList = <<>> THEN cellList
    ELSE LET owner == OwnerCell(elementList[1], cellList)
         IN  AllocateElements(
                 IF owner = 0 THEN cellList
                 ELSE [cellList EXCEPT ![owner].elements = Append(@, elementList[1])],
                 Tail(elementList))

\* The loop that groups the cells into rows.
RowTolerance == 2
\* A search for the row of a cell that allows one unit more between the y values.
RowOfWider(rowList, cell) ==
    IF \E i \in 1..Len(rowList) : Abs(rowList[i][1].y - cell.y) < RowTolerance + 1
    THEN CHOOSE i \in 1..Len(rowList) :
             /\ Abs(rowList[i][1].y - cell.y) < RowTolerance + 1
             /\ \A j \in 1..(i - 1) : ~(Abs(rowList[j][1].y - cell.y) < RowTolerance + 1)
    ELSE 0

RowOf(rowList, cell) ==
    IF \E i \in 1..Len(rowList) : Abs(rowList[i][1].y - cell.y) < RowTolerance
    THEN CHOOSE i \in 1..Len(rowList) :
             /\ Abs(rowList[i][1].y - cell.y) < RowTolerance
             /\ \A j \in 1..(i - 1) : ~(Abs(rowList[j][1].y - cell.y) < RowTolerance)
    ELSE 0
\* A grouping that keeps the cell that opens a row and drops the cells that join one.
RECURSIVE GroupCellsOpeningOnly(_, _)
GroupCellsOpeningOnly(rowList, cellList) ==
    IF cellList = <<>> THEN rowList
    ELSE LET row == RowOf(rowList, cellList[1])
         IN  GroupCellsOpeningOnly(
                 IF row = 0 THEN Append(rowList, <<cellList[1]>>)
                 ELSE rowList,
                 Tail(cellList))

RECURSIVE GroupCells(_, _)
GroupCells(rowList, cellList) ==
    IF cellList = <<>> THEN rowList
    ELSE LET row == RowOf(rowList, cellList[1])
         IN  GroupCells(
                 IF row = 0 THEN Append(rowList, <<cellList[1]>>)
                 ELSE [rowList EXCEPT ![row] = Append(@, cellList[1])],
                 Tail(cellList))

SortRowList(rowList) ==
    LET sorted == Sort(rowList, "rowComparer")
    IN  [i \in 1..Len(sorted) |-> Sort(sorted[i], "rowCellComparer")]

\* The column labels, as they are compared with the text of an element.
LabelApplicationNumber == <<"d", "/", "a", "n", "u", "m", "b", "e", "r">>
LabelReceivedDate == <<"r", "e", "c", "e", "i", "v", "e", "d">>
LabelLegalDescription == <<"a", "l", "l", "o", "t", "m", "e", "n", "t", "o", "r">>
LabelLegalDescriptionFallback == <<"a", "l", "l", "o", "t", "m", "e", "n", "t", "/">>
LabelStreetName == <<"s", "t", "r", "e", "e", "t", "n", "a", "m", "e">>
LabelSuburbName == <<"t", "o", "w", "n">>
LabelDescription == <<"p", "r", "o", "p", "o", "s", "a", "l">>

\* A label test on the texts of all the elements of the cell, joined.
HasLabelJoined(cell, label) ==
    StripSpace(ToLowerCase(
        Join([i \in 1..Len(cell.elements) |-> cell.elements[i].text], <<" ">>))) = label

\* element.text.toLowerCase().replace(/\s/g, "") === label, for some element of the cell.
HasLabel(cell, label) ==
    \E i \in 1..Len(cell.elements) : StripSpace(ToLowerCase(cell.elements[i].text)) = label
FindHeadingCell(cellList, label) == Find(cellList, LAMBDA cell : HasLabel(cell, label))

FindHeadingCells(cellList) ==
    [applicationNumber |-> FindHeadingCell(cellList, LabelApplicationNumber),
     receivedDate |-> FindHeadingCell(cellList, LabelReceivedDate),
     legalDescription |->
         IF IsDefined(FindHeadingCell(cellList, LabelLegalDescription))
         THEN FindHeadingCell(cellList, LabelLegalDescription)
         ELSE FindHeadingCell(cellList, LabelLegalDescriptionFallback),
     streetName |-> FindHeadingCell(cellList, LabelStreetName),
     suburbName |-> FindHeadingCell(cellList, LabelSuburbName),
     description |-> FindHeadingCell(cellList, LabelDescription)]
NoHeadingCells ==
    [applicationNumber |-> Undefined, receivedDate |-> Undefined,
     legalDescription |-> Undefined, streetName |-> Undefined,
     suburbName |-> Undefined, description |-> Undefined]

\* The checks on the heading cells without the check of the suburb heading.
MissingHeadingWithoutSuburb(headingCells) ==
    IF ~IsDefined(headingCells.applicationNumber) THEN "NoApplicationNumberHeading"
    ELSE IF ~IsDefined(headingCells.streetName) THEN "NoStreetNameHeading"
    ELSE "none"

\* The three checks on the heading cells: the console line of the first one that
\* fails, or "none".
MissingHeading(headingCells) ==
    IF ~IsDefined(headingCells.applicationNumber) THEN "NoApplicationNumberHeading"
    ELSE IF ~IsDefined(headingCells.streetName) THEN "NoStreetNameHeading"
    ELSE IF ~IsDefined(headingCells.suburbName) THEN "NoSuburbNameHeading"
    ELSE "none"

\* row.find(cell => getHorizontalOverlapPercentage(cell, headingCell) > 90).
ColumnLimit == 90
FindColumnCell(row, headingCell) ==
    Find(row, LAMBDA cell :
        Exceeds(getHorizontalOverlapPercentage(Some(cell), headingCell), ColumnLimit))

\* cell.elements.map(element => element.text).
Texts(cell) == [i \in 1..Len(cell.elements) |-> cell.elements[i].text]
\* The text of a cell without the trim.
JoinedTextUntrimmed(cell) == CollapseSpace(Join(Texts(cell), <<" ">>))

\* The text of a cell as the address, description and legal description take it.
JoinedText(cell) == Trim(CollapseSpace(Join(Texts(cell), <<" ">>)))
\* The text of a cell as the application number takes it.
ApplicationNumberText(cell) == Trim(Join(Texts(cell), <<>>))

NoDescriptionProvided == <<"N", "o", " ", "D", "e", "s", "c", "r", "i", "p", "t", "i", "o", "n", " ", "P", "r", "o", "v", "i", "d", "e", "d">>
InformationUrl == <<"u", ".", "p", "d", "f">>
\* The url parsePdf is called with: the URL main has selected, or the URL above when
\* parsePdf is called on its own.
url == IF main.pc \in {"parsing", "inserting"} THEN main.selectedPdfUrls[main.index] ELSE InformationUrl
CommentUrl == <<"m", "a", "i", "l", "t", "o", ":", "m", "a", "i", "l", "@", "d", "c", "l", "e", "p", ".", "s", "a", ".", "g", "o", "v", ".", "a", "u">>
\* moment().format("YYYY-MM-DD") on the day of the run.
Today == <<"2", "0", "1", "9", "-", "0", "2", "-", "2", "7">>

\* The description without its placeholder.
DescriptionVerbatim(description) == description

\* (description === "") ? "No Description Provided" : description.
DescriptionOrDefault(description) ==
    IF description = <<>> THEN NoDescriptionProvided ELSE description

\* A received date that starts from moment() rather than from moment.invalid().
receivedDateOrToday(receivedDateCell) ==
    IF IsDefined(receivedDateCell) /\ Len(Get(receivedDateCell).elements) > 0
    THEN MomentStrict(Trim(Get(receivedDateCell).elements[1].text))
    ELSE Some(<<2019, 2, 27>>)

receivedDateOf(receivedDateCell) ==
    IF IsDefined(receivedDateCell) /\ Len(Get(receivedDateCell).elements) > 0
    THEN MomentStrict(Trim(Get(receivedDateCell).elements[1].text))
    ELSE Undefined

\* One iteration of the loop over the rows: the branch it ends in, the console
\* lines it writes and the development application it pushes, if any.
ProcessRow(row, heading) ==
    LET applicationNumberCell == FindColumnCell(row, heading.applicationNumber)
        receivedDateCell == FindColumnCell(row, heading.receivedDate)
        legalDescriptionCell == FindColumnCell(row, heading.legalDescription)
        streetNameCell == FindColumnCell(row, heading.streetName)
        suburbNameCell == FindColumnCell(row, heading.suburbName)
        descriptionCell == FindColumnCell(row, heading.description)
        applicationNumber == ApplicationNumberText(Get(applicationNumberCell))
        streetName == JoinedText(Get(streetNameCell))
        suburbName == JoinedText(Get(suburbNameCell))
        address == formatAddress(streetName \o <<",", " ">> \o suburbName)
        description ==
            IF IsDefined(descriptionCell) THEN JoinedText(Get(descriptionCell)) ELSE <<>>
        receivedDate == receivedDateOf(receivedDateCell)
        legalDescription ==
            IF IsDefined(legalDescriptionCell) THEN JoinedText(Get(legalDescriptionCell))
            ELSE <<>>
        skip(branch, lines) == [outcome |-> branch, log |-> lines, pushed |-> <<>>]
    IN  IF ~IsDefined(applicationNumberCell) THEN skip("noApplicationNumberCell", <<>>)
        ELSE IF ~ApplicationNumberRegexTest(applicationNumber)
        THEN skip("noApplicationNumber", <<>>)
        ELSE IF ~IsDefined(streetNameCell)
        THEN skip("noStreetNameCell", <<"Found", "NoStreetNameCell">>)
        ELSE IF ~IsDefined(suburbNameCell)
        THEN skip("noSuburbNameCell", <<"Found", "NoSuburbNameCell">>)
        ELSE IF streetName = <<>> THEN skip("noStreetName", <<"Found", "NoStreetName">>)
        ELSE IF suburbName = <<>> THEN skip("noSuburbName", <<"Found", "NoSuburbName">>)
        ELSE IF address = <<>> THEN skip("blankAddress", <<"Found", "BlankAddress">>)
        ELSE [outcome |-> "pushed", log |-> <<"Found">>,
              pushed |-> <<[applicationNumber |-> applicationNumber,
                            address |-> address,
                            description |-> DescriptionOrDefault(description),
                            informationUrl |-> url,
                            commentUrl |-> CommentUrl,
                            scrapeDate |-> Today,
                            receivedDate |-> IF IsDefined(receivedDate)
                                             THEN FormatDate(Get(receivedDate)) ELSE <<>>,
                            legalDescription |-> legalDescription]>>]


\* ------------------------------------------------------------------ documents

\* The pages the model reads are register pages: a grid of six columns with a
\* heading row and data rows under it, drawn as filled thin rectangles, and text
\* fragments placed in the cells.
\* The well-formed register page: its heading row and one data row.
HeadingRow == <<
    <<<<"D", "/", "A", " ", "N", "u", "m", "b", "e", "r">>>>, <<<<"R", "e", "c", "e", "i", "v", "e", "d">>>>, <<<<"A", "l", "l", "o", "t", "m", "e", "n", "t", " ", "o", "r">>>>,
    <<<<"S", "t", "r", "e", "e", "t", " ", "N", "a", "m", "e">>>>, <<<<"T", "o", "w", "n">>>>, <<<<"P", "r", "o", "p", "o", "s", "a", "l">>>> >>
DataRow == <<
    <<<<"9", "1", "0", "/", "1", "4", "4", "/", "1", "6">>>>, <<<<"1", "/", "0", "2", "/", "2", "0", "1", "9">>>>, <<<<"L", "O", "T", " ", "5">>>>,
    <<<<"2", "2", " ", "S", "M", "Y", "T", "H", " ", "R", "D">>>>, <<<<"T", "O", "W", "N", "S", "V", "I", "L", "L", "E">>>>, <<<<"S", "H", "E", "D">>>> >>
SecondDataRow == <<
    <<<<"5", "/", "1", "0", "/", "2", "1">>>>, <<>>, <<>>,
    <<<<"1", " ", "M", "A", "I", "N", " ", "S", "T">>>>, <<<<"T", "O", "W", "N", "S", "V", "I", "L", "L", "E">>>>, <<>> >>
WellFormedTable == <<HeadingRow, DataRow>>

ColumnWidth == 50
RowHeight == 20
Columns == Len(HeadingRow)
GridWidth == Columns * ColumnWidth
TextHeight == 10
TextWidth == 15
FragmentStep == 20

\* A horizontal rule at height y and a vertical rule at x, for a grid of rowCount rows.
HorizontalRule(y) == <<OpRectangle(0, y, GridWidth, 1), OpFill>>
VerticalRule(x, rowCount) == <<OpRectangle(x, 0, 1, rowCount * RowHeight), OpEoFill>>
RECURSIVE Concat(_)
Concat(lists) == IF lists = <<>> THEN <<>> ELSE lists[1] \o Concat(Tail(lists))
\* The operator list of a grid with the given numbers of horizontal and vertical rules.
GridOperators(horizontalCount, verticalCount, rowCount) ==
    Concat([h \in 1..horizontalCount |-> HorizontalRule((h - 1) * RowHeight)])
    \o Concat([v \in 1..verticalCount |-> VerticalRule((v - 1) * ColumnWidth, rowCount)])

\* The same rules drawn under a translation that a save and a restore enclose, with
\* a path that is stroked and a small filled box (a logo) beside them.
Shift == 7
ShiftedRule(operatorList) ==
    [i \in 1..Len(operatorList) |->
        IF operatorList[i].fn = "constructPath"
        THEN [operatorList[i] EXCEPT !.args[1] = @ - Shift]
        ELSE operatorList[i]]
DecoratedGridOperators(horizontalCount, verticalCount, rowCount) ==
    <<OpSave, OpTransform(<<1, 0, 0, 1, Shift, 0>>)>>
    \o ShiftedRule(GridOperators(horizontalCount, verticalCount, rowCount))
    \o <<OpRestore,
         Operator("constructPath", <<"moveTo", "lineTo", "rectangle">>, <<0, 0, 5, 5, 400, 400, 30, 30>>),
         OpFill,
         OpRectangle(0, 500, GridWidth, 1), OpStroke>>
\* An operator list with more restores than saves before the grid is drawn.
UnbalancedGridOperators(horizontalCount, verticalCount, rowCount) ==
    <<OpRestore, OpRestore, OpTransform(<<1, 0, 0, 1, 0, 0>>)>>
    \o GridOperators(horizontalCount, verticalCount, rowCount)

\* The text items of a table: table[r][c] is the sequence of text fragments of row
\* r (1 is the heading row, the topmost) and column c.
TextItem(str, x, y) ==
    [str |-> str, transform |-> <<TextHeight, 0, 0, TextHeight, x, y>>, width |-> TextWidth]
CellItems(fragments, r, c, rowCount) ==
    [k \in 1..Len(fragments) |->
        TextItem(fragments[k], (c - 1) * ColumnWidth + 2 + (k - 1) * FragmentStep,
                 (rowCount - r) * RowHeight + 5)]
TableItems(table) ==
    Concat([n \in 1..(Len(table) * Columns) |->
        CellItems(table[((n - 1) \div Columns) + 1][((n - 1) % Columns) + 1],
                  ((n - 1) \div Columns) + 1, ((n - 1) % Columns) + 1, Len(table))])

Page(operatorList, items) == [operators |-> operatorList, items |-> items]

\* What a cell of the table may hold instead: Alternatives[r][c] is a sequence of
\* fragment sequences.
Alternatives == <<
    << \* the heading row
       << <<>>, <<<<"D", "/", "A">>, <<"N", "u", "m", "b", "e", "r">>>> >>,
       << <<>> >>,
       << <<>>, <<<<"A", "l", "l", "o", "t", "m", "e", "n", "t", " ", "/">>>> >>,
       << <<>> >>,
       << <<>> >>,
       << <<>> >> >>,
    << \* the data row
       << <<>>, <<<<"9", "1", "0", "/">>, <<"1", "4", "4", "/", "1", "6">>>>, <<<<"A", "B", "C", "1", "2", "3">>>>, <<<<"D", "A", " ", "5", "/", "1", "0", "/", "2", "1", " ", "X">>>> >>,
       << <<>>, <<<<"3", "1", "/", "0", "2", "/", "2", "0", "1", "9">>>>, <<<<"1", "/", "2", "/", "2", "0", "1", "9">>>>, <<<<"1", "/", "0", "2", "/">>, <<"2", "0", "1", "9">>>> >>,
       << <<>>, <<<<"L", "O", "T">>, <<" ", "5">>>> >>,
       << <<>>, <<<<" ">>>>, <<<<"2", "2", " ", "S", "M", "Y", "H", "T", " ", "R", "D">>>>, <<<<"9", " ", "E", "L", "M">>>> >>,
       << <<>>, <<<<" ">>>>, <<<<"T", "O", "W", "N", "S", "V", "I", "L", "E">>>>, <<<<"X", "Y", "Z", "Z", "Y">>>> >>,
       << <<>>, <<<<" ">>>>, <<<<"N", "E", "W", " ", " ", "S", "H", "E", "D">>>> >> >> >>

\* A deviation <<r, c, a>> puts Alternatives[r][c][a] in cell (r, c).
Deviations ==
    UNION {{<<r, c, a>> : a \in 1..Len(Alternatives[r][c])} :
               r \in 1..Len(Alternatives), c \in 1..Len(HeadingRow)}
\* The sets of at most count deviations, no two of them in the same cell.
RECURSIVE DeviationSets(_)
DeviationSets(count) ==
    IF count = 0 THEN {{}}
    ELSE LET fewer == DeviationSets(count - 1)
             free == {p \in fewer \X Deviations :
                         \A d \in p[1] : ~(d[1] = p[2][1] /\ d[2] = p[2][2])}
         IN  fewer \cup {p[1] \cup {p[2]} : p \in free}
Deviate(table, set) ==
    [r \in 1..Len(table) |-> [c \in 1..Columns |->
        IF \E d \in set : d[1] = r /\ d[2] = c
        THEN Alternatives[r][c][(CHOOSE d \in set : d[1] = r /\ d[2] = c)[3]]
        ELSE table[r][c]]]

\* The register pages: the well-formed page with some of its cells changed.
FullGrid == GridOperators(3, Columns + 1, 2)
RegisterPages ==
    {Page(FullGrid, TableItems(Deviate(WellFormedTable, set))) :
        set \in DeviationSets(MaxDeviations)}
\* The well-formed text on other drawings: a grid with rules missing, a grid drawn
\* under a transform, a grid of two data rows, an unbalanced operator list.
GridPages ==
    {Page(GridOperators(h, v, 2), TableItems(WellFormedTable)) :
        h \in 0..3, v \in 0..(Columns + 1)}
    \cup {Page(DecoratedGridOperators(3, Columns + 1, 2), TableItems(WellFormedTable)),
          Page(GridOperators(4, Columns + 1, 3),
               TableItems(<<HeadingRow, DataRow, SecondDataRow>>)),
          Page(UnbalancedGridOperators(3, Columns + 1, 2), TableItems(WellFormedTable))}
\* The pages of the documents of more than one page.
FewPages ==
    {Page(FullGrid, TableItems(WellFormedTable)),
     Page(FullGrid, TableItems(<<HeadingRow, SecondDataRow>>)),
     Page(FullGrid, TableItems(Deviate(WellFormedTable, {<<1, 4, 1>>}))),
     Page(GridOperators(1, Columns + 1, 2), TableItems(WellFormedTable)),
     Page(UnbalancedGridOperators(3, Columns + 1, 2), TableItems(WellFormedTable))}
\* The well-formed page with one more text item in its data row: an item half in
\* the third column and half in the fourth, one mostly in the third, one mostly in the
\* fourth, one of no width, one beside the grid and one half in each row.
ItemOfWidth(str, x, y, width) ==
    [str |-> str, transform |-> <<TextHeight, 0, 0, TextHeight, x, y>>, width |-> width]
StraddlingItems ==
    {ItemOfWidth(<<"X">>, 3 * ColumnWidth - 5, 5, 10),
     ItemOfWidth(<<"X">>, 3 * ColumnWidth - 6, 5, 10),
     ItemOfWidth(<<"X">>, 3 * ColumnWidth - 4, 5, 10),
     ItemOfWidth(<<"X">>, 3 * ColumnWidth + 2, 5, 0),
     ItemOfWidth(<<"X">>, GridWidth + 10, 5, 10),
     ItemOfWidth(<<"X">>, 3 * ColumnWidth + 2, RowHeight - 5, 10)}
StraddlingPages ==
    {Page(FullGrid, TableItems(WellFormedTable) \o <<item>>) : item \in StraddlingItems}
\* The well-formed page under other heading rows: a heading in two cells, both legal
\* description headings, a heading with a second fragment, a legal description
\* heading of another spelling, a heading in capitals with spaces.
HeadingRows == {
    [HeadingRow EXCEPT ![6] = <<<<"T", "o", "w", "n">>>>],
    [HeadingRow EXCEPT ![3] = <<<<"A", "l", "l", "o", "t", "m", "e", "n", "t", " ", "/">>>>, ![6] = <<<<"A", "l", "l", "o", "t", "m", "e", "n", "t", " ", "o", "r">>>>],
    [HeadingRow EXCEPT ![5] = <<<<"T", "o", "w", "n">>, <<"N", "a", "m", "e">>>>],
    [HeadingRow EXCEPT ![3] = <<<<"A", "l", "l", "o", "t", "m", "e", "n", "t">>>>],
    [HeadingRow EXCEPT ![1] = <<<<"D", " ", "/", " ", "A", " ", " ", "N", "U", "M", "B", "E", "R">>>>] }
HeadingPages ==
    {Page(FullGrid, TableItems(<<row, DataRow>>)) : row \in HeadingRows}

\* The well-formed text on grids whose horizontal rules are one apart or more: the
\* rules are drawn at two or three of five heights in any order, or at four or five.
RuleHeights == 0..4
ThinRowGrids ==
    {Concat([h \in 1..Len(heights) |-> HorizontalRule(heights[h])])
     \o Concat([v \in 1..3 |-> VerticalRule((v - 1) * ColumnWidth, 2)]) :
        heights \in UNION {[1..n -> RuleHeights] : n \in 2..3}
                    \cup {<<0, 1, 2, 3>>, <<0, 1, 2, 4>>, <<0, 1, 3, 4>>, <<0, 2, 3, 4>>,
                          <<1, 2, 3, 4>>, <<0, 1, 2, 3, 4>>}}
ThinRowPages == {Page(operatorList, TableItems(WellFormedTable)) : operatorList \in ThinRowGrids}

Documents ==
    {<<p>> : p \in RegisterPages \cup GridPages \cup StraddlingPages \cup HeadingPages
                    \cup ThinRowPages}
    \cup UNION {[1..n -> FewPages] : n \in 2..MaxPages}


\* ------------------------------------------------------------------ parsePdf, step by step

gazetteer == <<StreetNames, StreetSuffixes, SuburbNames>>
\* main before it is called.
MainNotCalled ==
    [pc |-> "none", links |-> <<>>, pdfUrls |-> <<>>, selectedPdfUrls |-> <<>>, index |-> 0,
     inserted |-> 0, console |-> <<>>]

calls == <<arguments, returnValue, database, main>>
walker == <<operators, opIndex>>
pageLocals == <<cells, elements, rows, headings, rowIndex, walk, horizontalLines, verticalLines>>

\* parsePdf has been called for a document, after readAddressInformation.
Init ==
    /\ pdf \in Documents
    /\ pc = "loop"
    /\ pageIndex = 0
    /\ page = Undefined
    /\ cells = <<>> /\ elements = <<>> /\ rows = <<>>
    /\ headings = NoHeadingCells
    /\ rowIndex = 0
    /\ outcome = "none"
    /\ developmentApplications = <<>>
    /\ returned = Undefined
    /\ log = <<>>
    /\ operators = <<>> /\ opIndex = 0
    /\ walk = WalkStart
    /\ horizontalLines = <<>> /\ verticalLines = <<>>
    /\ StreetNames = readAddressInformation.StreetNames
    /\ StreetSuffixes = readAddressInformation.StreetSuffixes
    /\ SuburbNames = readAddressInformation.SuburbNames
    /\ arguments = Undefined /\ returnValue = Undefined /\ database = <<>>
    /\ main = MainNotCalled

\* The head of the loop over the pages: pdf.getPage(pageIndex + 1).
GetPage ==
    /\ pc = "loop" /\ pageIndex < Len(pdf)
    /\ page' = Some(pdf[pageIndex + 1])
    /\ log' = <<"ReadingPage">>
    /\ outcome' = "none"
    /\ pc' = "parseCells"
    /\ UNCHANGED <<pdf, pageIndex, pageLocals, developmentApplications, returned,
                   walker, gazetteer, calls>>

\* await parseCells(page).  A TypeError thrown in the walk over the operator list
\* is caught nowhere in parsePdf: it rejects the promise parsePdf returned.
ParseCells ==
    /\ pc = "parseCells"
    /\ LET final == WalkOperators(WalkStart, Get(page).operators, 1)
           horizontal == Sort(ClassifyHorizontal(final.lines), "horizontalLineComparer")
           vertical == Sort(ClassifyVertical(final.lines), "verticalLineComparer")
       IN  /\ walk' = final
           /\ IF final.thrown
              THEN /\ pc' = "rejected"
                   /\ outcome' = "thrown"
                   /\ UNCHANGED <<cells, horizontalLines, verticalLines>>
              ELSE /\ pc' = "parseElements"
                   /\ horizontalLines' = horizontal
                   /\ verticalLines' = vertical
                   /\ cells' = ConstructCells(horizontal, vertical)
                   /\ UNCHANGED outcome
    /\ UNCHANGED <<pdf, pageIndex, page, elements, rows, headings, rowIndex,
                   developmentApplications, returned, log, walker, gazetteer, calls>>

\* await parseElements(page).
ParseElements ==
    /\ pc = "parseElements"
    /\ elements' = parseElements(Get(page).items)
    /\ pc' = "invert"
    /\ UNCHANGED <<pdf, pageIndex, page, cells, rows, headings, rowIndex, outcome,
                   developmentApplications, returned, log, walker, walk,
                   horizontalLines, verticalLines, gazetteer, calls>>

\* The two loops that invert the co-ordinates.
InvertCoordinates ==
    /\ pc = "invert"
    /\ cells' = InvertAll(cells)
    /\ elements' = InvertAll(elements)
    /\ pc' = "sort"
    /\ UNCHANGED <<pdf, pageIndex, page, rows, headings, rowIndex, outcome,
                   developmentApplications, returned, log, walker, walk,
                   horizontalLines, verticalLines, gazetteer, calls>>

\* cells.sort(cellComparer) and elements.sort(elementComparer).
SortCellsAndElements ==
    /\ pc = "sort"
    /\ cells' = Sort(cells, "cellComparer")
    /\ elements' = Sort(elements, "elementComparer")
    /\ pc' = "allocate"
    /\ UNCHANGED <<pdf, pageIndex, page, rows, headings, rowIndex, outcome,
                   developmentApplications, returned, log, walker, walk,
                   horizontalLines, verticalLines, gazetteer, calls>>

\* The loop that allocates each element to an owning cell.
Allocate ==
    /\ pc = "allocate"
    /\ cells' = AllocateElements(cells, elements)
    /\ pc' = "group"
    /\ UNCHANGED <<pdf, pageIndex, page, elements, rows, headings, rowIndex, outcome,
                   developmentApplications, returned, log, walker, walk,
                   horizontalLines, verticalLines, gazetteer, calls>>

\* The grouping of the cells into rows, without the check that there is a row.
GroupRowsUnchecked ==
    /\ pc = "group"
    /\ rows' = GroupCells(<<>>, cells)
    /\ pc' = "sortRows"
    /\ UNCHANGED <<pdf, pageIndex, page, cells, elements, headings, rowIndex, outcome,
                   developmentApplications, returned, log, walker, walk,
                   horizontalLines, verticalLines, gazetteer, calls>>

\* The loop that groups the cells into rows, and the check that there is a row.
GroupRows ==
    /\ pc = "group"
    /\ rows' = GroupCells(<<>>, cells)
    /\ IF rows' = <<>>
       THEN /\ log' = Append(log, "NoRows")
            /\ outcome' = "noRows"
            /\ pageIndex' = pageIndex + 1
            /\ pc' = "loop"
       ELSE /\ pc' = "sortRows"
            /\ UNCHANGED <<log, outcome, pageIndex>>
    /\ UNCHANGED <<pdf, page, cells, elements, headings, rowIndex,
                   developmentApplications, returned, walker, walk,
                   horizontalLines, verticalLines, gazetteer, calls>>

\* rows.sort(rowComparer) and row.sort(rowCellComparer) for each row.
SortRows ==
    /\ pc = "sortRows"
    /\ rows' = SortRowList(rows)
    /\ pc' = "headings"
    /\ UNCHANGED <<pdf, pageIndex, page, cells, elements, headings, rowIndex, outcome,
                   developmentApplications, returned, log, walker, walk,
                   horizontalLines, verticalLines, gazetteer, calls>>

\* The six searches for the heading cells and the three checks that follow them.
FindHeadings ==
    /\ pc = "headings"
    /\ headings' = FindHeadingCells(cells)
    /\ LET missing == MissingHeading(headings')
       IN  IF missing # "none"
           THEN /\ log' = Append(log, missing)
                /\ outcome' = "noHeading"
                /\ pageIndex' = pageIndex + 1
                /\ pc' = "loop"
                /\ UNCHANGED rowIndex
           ELSE /\ rowIndex' = 1
                /\ pc' = "rows"
                /\ UNCHANGED <<log, outcome, pageIndex>>
    /\ UNCHANGED <<pdf, page, cells, elements, rows, developmentApplications, returned,
                   walker, walk, horizontalLines, verticalLines, gazetteer, calls>>

\* One iteration of the loop over the rows; after the last row the page is done.
NextRow ==
    /\ pc = "rows" /\ rowIndex <= Len(rows)
    /\ LET result == ProcessRow(rows[rowIndex], headings)
       IN  /\ outcome' = result.outcome
           /\ log' = log \o result.log
           /\ developmentApplications' = developmentApplications \o result.pushed
    /\ rowIndex' = rowIndex + 1
    /\ IF rowIndex = Len(rows)
       THEN pageIndex' = pageIndex + 1 /\ pc' = "loop"
       ELSE UNCHANGED <<pageIndex, pc>>
    /\ UNCHANGED <<pdf, page, cells, elements, rows, headings, returned,
                   walker, walk, horizontalLines, verticalLines, gazetteer, calls>>

\* return developmentApplications, after the last page.
Return ==
    /\ pc = "loop" /\ pageIndex = Len(pdf)
    /\ returned' = Some(developmentApplications)
    /\ pc' = "returned"
    /\ UNCHANGED <<pdf, pageIndex, page, pageLocals, outcome, developmentApplications,
                   log, walker, gazetteer, calls>>

Next ==
    \/ GetPage
    \/ ParseCells
    \/ ParseElements
    \/ InvertCoordinates
    \/ SortCellsAndElements
    \/ Allocate
    \/ GroupRows
    \/ SortRows
    \/ FindHeadings
    \/ NextRow
    \/ Return

Spec == Init /\ [][Next]_vars


\* ------------------------------------------------------------------ parseCells, step by step

\* The rectangles of the rules of a grid: three heights and three abscissas.
GridRectangles ==
    {<<0, (h - 1) * RowHeight, GridWidth, 1>> : h \in 1..3}
    \cup {<<(v - 1) * ColumnWidth, 0, 1, 2 * RowHeight>> : v \in 1..3}
\* Rectangles at both sides of the limits that tell a rule from any other box:
\* <<x, y, width, height>>.
LimitRectangles ==
    {<<0, 0, w, h>> : w \in {199, 200}, h \in {-1, 2, 3}}
    \cup {<<0, 0, w, h>> : w \in {-1, 2, 3}, h \in {9, 10}}
\* The operator list that draws and fills each rectangle of a sequence in turn.
FilledRectangles(rectangles) ==
    Concat([i \in 1..Len(rectangles) |->
        <<OpRectangle(rectangles[i][1], rectangles[i][2], rectangles[i][3], rectangles[i][4]),
          IF i % 2 = 1 THEN OpFill ELSE OpEoFill>>])
OperatorLists ==
    {FilledRectangles(list) : list \in UNION {[1..n -> GridRectangles] : n \in 0..MaxLines}}
    \cup {FilledRectangles(list) : list \in UNION {[1..n -> LimitRectangles] : n \in 1..2}}
    \cup {DecoratedGridOperators(3, Columns + 1, 2),
          UnbalancedGridOperators(3, Columns + 1, 2)}

\* parseCells has been called for a page with one of the operator lists.
InitCells ==
    /\ operators \in OperatorLists
    /\ opIndex = 1
    /\ walk = WalkStart
    /\ horizontalLines = <<>> /\ verticalLines = <<>>
    /\ cells = <<>>
    /\ pc = "walk"
    /\ pdf = <<>> /\ pageIndex = 0 /\ page = Undefined
    /\ elements = <<>> /\ rows = <<>> /\ headings = NoHeadingCells /\ rowIndex = 0
    /\ outcome = "none"
    /\ developmentApplications = <<>> /\ returned = Undefined /\ log = <<>>
    /\ StreetNames = readAddressInformation.StreetNames
    /\ StreetSuffixes = readAddressInformation.StreetSuffixes
    /\ SuburbNames = readAddressInformation.SuburbNames
    /\ arguments = Undefined /\ returnValue = Undefined /\ database = <<>>
    /\ main = MainNotCalled

parsePdfLocals ==
    <<pdf, pageIndex, page, elements, rows, headings, rowIndex, outcome,
      developmentApplications, returned, log>>

\* One iteration of the loop over the operator list.
WalkStep ==
    /\ pc = "walk" /\ opIndex <= Len(operators)
    /\ walk' = WalkOperator(walk, operators[opIndex])
    /\ opIndex' = opIndex + 1
    /\ pc' = IF walk'.thrown THEN "rejected" ELSE "walk"
    /\ UNCHANGED <<operators, cells, horizontalLines, verticalLines, parsePdfLocals, gazetteer, calls>>

\* The loop that tells the horizontal and the vertical lines from the others.
ClassifyLines ==
    /\ pc = "walk" /\ opIndex > Len(operators)
    /\ horizontalLines' = ClassifyHorizontal(walk.lines)
    /\ verticalLines' = ClassifyVertical(walk.lines)
    /\ pc' = "sortLines"
    /\ UNCHANGED <<operators, opIndex, walk, cells, parsePdfLocals, gazetteer, calls>>

\* verticalLines.sort(verticalLineComparer) and horizontalLines.sort(horizontalLineComparer).
SortLines ==
    /\ pc = "sortLines"
    /\ verticalLines' = Sort(verticalLines, "verticalLineComparer")
    /\ horizontalLines' = Sort(horizontalLines, "horizontalLineComparer")
    /\ pc' = "construct"
    /\ UNCHANGED <<operators, opIndex, walk, cells, parsePdfLocals, gazetteer, calls>>

\* The nested loops that construct the cells, and the return.
Construct ==
    /\ pc = "construct"
    /\ cells' = ConstructCells(horizontalLines, verticalLines)
    /\ pc' = "cells"
    /\ UNCHANGED <<operators, opIndex, walk, horizontalLines, verticalLines,
                   parsePdfLocals, gazetteer, calls>>

NextCells ==
    \/ WalkStep
    \/ ClassifyLines
    \/ SortLines
    \/ Construct

SpecCells == InitCells /\ [][NextCells]_vars


\* ------------------------------------------------------------------ properties of parsePdf

\* The records collected so far and the steps that add to them.
PushedNone == developmentApplications' = developmentApplications
PushedOne ==
    /\ Len(developmentApplications') = Len(developmentApplications) + 1
    /\ SubSeq(developmentApplications', 1, Len(developmentApplications)) = developmentApplications
NewRecord == developmentApplications'[Len(developmentApplications')]
LastRecord == developmentApplications[Len(developmentApplications)]
LastLogged == log[Len(log)]

\* The row the loop over the rows is at, and its cell in the column of a heading
\* cell: the cell with the abscissa and the width of the heading cell.
AtRow == pc = "rows" /\ rowIndex <= Len(rows)
ColumnCell(row, headingCell) ==
    IF ~IsDefined(headingCell) THEN Undefined
    ELSE Find(row, LAMBDA cell :
             cell.x = Get(headingCell).x /\ cell.width = Get(headingCell).width)
Fragments(cell) ==
    IF IsDefined(cell) THEN [i \in 1..Len(Get(cell).elements) |-> Get(cell).elements[i].text]
    ELSE <<>>
\* A missing cell, a cell without text, a cell of white space only.
Blank(cell) ==
    \A i \in 1..Len(Fragments(cell)) :
        \A k \in 1..Len(Fragments(cell)[i]) : IsSpace(Fragments(cell)[i][k])
\* s is digits, a slash, digits, a slash, digits and nothing else.
DigitGroups(s) ==
    \E a, b \in 1..Len(s) :
        /\ 1 < a /\ a + 1 < b /\ b < Len(s)
        /\ \A k \in 1..Len(s) : IF k \in {a, b} THEN s[k] = "/" ELSE IsDigit(s[k])
\* Some part of s is digits/digits/digits.
MatchesPattern(s) ==
    \E i, j \in 1..Len(s) : i <= j /\ DigitGroups(SubSeq(s, i, j))

IdentifierCell == ColumnCell(rows[rowIndex], headings.applicationNumber)
ReceivedCell == ColumnCell(rows[rowIndex], headings.receivedDate)
LegalCell == ColumnCell(rows[rowIndex], headings.legalDescription)
StreetCell == ColumnCell(rows[rowIndex], headings.streetName)
SuburbCell == ColumnCell(rows[rowIndex], headings.suburbName)
DescriptionCell == ColumnCell(rows[rowIndex], headings.description)
IdentifierText == Concat(Fragments(IdentifierCell))
ValidIdentifier == IsDefined(IdentifierCell) /\ MatchesPattern(IdentifierText)

CanonicalSuburbs == {SuburbNames[i][2] : i \in 1..Len(SuburbNames)}

\* C1: every record parsePdf has collected has an address that ends in a
\* canonical suburb string of the suburb gazetteer (so a row whose suburb text
\* matches no known suburb has produced no record).
C1_AddressEndsInCanonicalSuburb ==
    \A i \in 1..Len(developmentApplications) :
        \E suburb \in CanonicalSuburbs :
            EndsWith(developmentApplications[i].address, <<",", " ">> \o suburb)

\* C2: no exception propagates past the processing of a page: parsePdf never ends
\* rejected, and when it ends every page has been processed and the records
\* collected are the ones returned.
C2_NoExceptionPropagates ==
    /\ pc # "rejected"
    /\ pc = "returned" => pageIndex = Len(pdf) /\ returned = Some(developmentApplications)

\* C3: when the page has fewer than 2 horizontal lines or fewer than 2 vertical
\* lines, parseCells returns no cells, and parsePdf goes on without an error to the
\* check of the rows, where it adds no record, logs that the page has no rows and
\* continues with the next page.
FewLines == Len(horizontalLines) < 2 \/ Len(verticalLines) < 2
C3_FewLinesSkipPage ==
    [][/\ (pc = "parseCells" /\ pc' = "parseElements"
              /\ (Len(horizontalLines') < 2 \/ Len(verticalLines') < 2))
          => cells' = <<>> /\ PushedNone
       /\ (pc \in {"parseElements", "invert", "sort", "allocate"} /\ FewLines)
          => /\ pc' \in {"invert", "sort", "allocate", "group"}
             /\ cells' = <<>> /\ PushedNone /\ log' = log
       /\ (pc = "group" /\ FewLines)
          => /\ PushedNone
             /\ log' = Append(log, "NoRows")
             /\ outcome' = "noRows"
             /\ pc' = "loop" /\ pageIndex' = pageIndex + 1]_vars
C3_FewLinesPageSkipped ==
    /\ pc = "loop" /\ pageIndex = 1 /\ outcome = "noRows"
    /\ log = <<"ReadingPage", "NoRows">>
    /\ Len(horizontalLines) < 2 /\ Len(verticalLines) >= 2
    /\ cells = <<>> /\ developmentApplications = <<>>

\* C4: at the search for the heading cells, a page without a cell labelled
\* "D/A Number", "Street Name" or "Town" adds no record, logs the heading that is
\* missing and continues with the next page; any other page goes on to its rows,
\* whether or not it has the other three headings.
Labelled(label) ==
    \E i \in 1..Len(cells) : \E k \in 1..Len(cells[i].elements) :
        StripSpace(ToLowerCase(cells[i].elements[k].text)) = label
C4_MandatoryHeadings ==
    [][pc = "headings" =>
         IF ~Labelled(LabelApplicationNumber) \/ ~Labelled(LabelStreetName)
                \/ ~Labelled(LabelSuburbName)
         THEN /\ PushedNone
              /\ log' = Append(log,
                     IF ~Labelled(LabelApplicationNumber) THEN "NoApplicationNumberHeading"
                     ELSE IF ~Labelled(LabelStreetName) THEN "NoStreetNameHeading"
                     ELSE "NoSuburbNameHeading")
              /\ pc' = "loop" /\ pageIndex' = pageIndex + 1
         ELSE /\ pc' = "rows" /\ rowIndex' = 1
              /\ PushedNone /\ log' = log /\ pageIndex' = pageIndex]_vars
C4_SuburbHeadingMissing ==
    /\ pc = "loop" /\ pageIndex = 1 /\ outcome = "noHeading"
    /\ LastLogged = "NoSuburbNameHeading"
    /\ ~Labelled(LabelSuburbName) /\ Labelled(LabelStreetName)
    /\ developmentApplications = <<>>

\* C5: the applicationNumber of every record has a part that is digits/digits/digits;
\* a row adds a record only if it has an identifier cell and the concatenation of
\* the fragments of that cell has such a part, and the applicationNumber of the
\* record is that concatenation, trimmed; a row without an identifier cell or
\* whose identifier text has no such part adds no record and logs nothing;
\* "910/144/16" has such a part and "ABC123" has none.
C5_ApplicationNumberPattern ==
    /\ [](\A i \in 1..Len(developmentApplications) :
             MatchesPattern(developmentApplications[i].applicationNumber))
    /\ [][AtRow =>
            /\ ~ValidIdentifier => PushedNone /\ log' = log
            /\ ~PushedNone =>
                  /\ PushedOne /\ ValidIdentifier
                  /\ NewRecord.applicationNumber = Trim(IdentifierText)]_vars
    /\ [](/\ ApplicationNumberRegexTest(<<"9", "1", "0", "/", "1", "4", "4", "/", "1", "6">>)
          /\ ~ApplicationNumberRegexTest(<<"A", "B", "C", "1", "2", "3">>))
C5_FragmentsConcatenated ==
    /\ pc = "loop" /\ pageIndex = 1 /\ outcome = "pushed"
    /\ Len(developmentApplications) = 1
    /\ LastRecord.applicationNumber = <<"9", "1", "0", "/", "1", "4", "4", "/", "1", "6">>
    /\ Len(rows[2][1].elements) = 2
    /\ rows[2][1].elements[1].text = <<"9", "1", "0", "/">>

\* C6, as stated: a row whose street cell or suburb cell is missing or blank adds
\* no record and logs a rejection, and no record has an empty address.
C6_BlankStreetOrSuburbLogged ==
    /\ [](\A i \in 1..Len(developmentApplications) :
             developmentApplications[i].address # <<>>)
    /\ [][(AtRow /\ (Blank(StreetCell) \/ Blank(SuburbCell)))
             => PushedNone /\ Len(log') > Len(log)]_vars
\* C6, amended: a row with a valid identifier whose street cell or suburb cell is
\* missing or blank adds no record and logs the identifier and the reason of the
\* rejection; a row without a valid identifier adds no record and logs nothing; a
\* row that adds a record has a street text and a suburb text that are not blank,
\* and no record has an empty address.
C6_BlankStreetOrSuburbRejected ==
    /\ [](\A i \in 1..Len(developmentApplications) :
             developmentApplications[i].address # <<>>)
    /\ [][AtRow =>
            /\ (ValidIdentifier /\ (Blank(StreetCell) \/ Blank(SuburbCell)))
               => /\ PushedNone
                  /\ log' = log \o <<"Found",
                        IF ~IsDefined(StreetCell) THEN "NoStreetNameCell"
                        ELSE IF ~IsDefined(SuburbCell) THEN "NoSuburbNameCell"
                        ELSE IF Blank(StreetCell) THEN "NoStreetName"
                        ELSE "NoSuburbName">>
            /\ ~ValidIdentifier => PushedNone /\ log' = log
            /\ ~PushedNone => ~Blank(StreetCell) /\ ~Blank(SuburbCell)]_vars
C6_BlankSuburbRejected ==
    /\ pc = "loop" /\ pageIndex = 1 /\ outcome = "noSuburbName"
    /\ log = <<"ReadingPage", "Found", "NoSuburbName">>
    /\ Len(rows[2][5].elements) = 1 /\ rows[2][5].elements[1].text = <<" ">>
    /\ developmentApplications = <<>>

\* C7: a row with a valid identifier and a street text and a suburb text that
\* are not blank adds exactly one record, whatever its description, legal
\* description and received date cells hold; the description of the record is
\* "No Description Provided" when the description cell is missing or blank, and
\* its legalDescription is empty when the legal description cell is missing or
\* blank.
C7_OptionalFieldsDefault ==
    [][(AtRow /\ ValidIdentifier /\ ~Blank(StreetCell) /\ ~Blank(SuburbCell))
          => /\ PushedOne
             /\ Blank(DescriptionCell) => NewRecord.description = NoDescriptionProvided
             /\ Blank(LegalCell) => NewRecord.legalDescription = <<>>]_vars
C7_DefaultsRecorded ==
    /\ pc = "loop" /\ outcome = "pushed"
    /\ Len(developmentApplications) = 2
    /\ LastRecord.applicationNumber = <<"5", "/", "1", "0", "/", "2", "1">>
    /\ LastRecord.description = NoDescriptionProvided
    /\ LastRecord.legalDescription = <<>>
    /\ LastRecord.receivedDate = <<>>

\* C8: the receivedDate of the record a row adds is the date that the strict
\* D/MM/YYYY parse of the first fragment of the received date cell gives, as
\* YYYY-MM-DD, and it is empty when the cell is missing, has no fragment or its
\* first fragment does not parse; a date is never put in its place.
C8_ReceivedDateStrictOrEmpty ==
    [][(AtRow /\ ~PushedNone) =>
          NewRecord.receivedDate =
              IF Fragments(ReceivedCell) = <<>> THEN <<>>
              ELSE IF IsDefined(MomentStrict(Trim(Fragments(ReceivedCell)[1])))
              THEN FormatDate(Get(MomentStrict(Trim(Fragments(ReceivedCell)[1]))))
              ELSE <<>>]_vars
C8_FirstFragmentOnly ==
    /\ pc = "loop" /\ pageIndex = 1 /\ outcome = "pushed"
    /\ Len(developmentApplications) = 1
    /\ Len(rows[2][2].elements) = 2
    /\ rows[2][2].elements[1].text = <<"1", "/", "0", "2", "/">>
    /\ LastRecord.receivedDate = <<>>

\* ------------------------------------------------------------------ properties of parseCells

\* C9: when parseCells has returned for H >= 2 horizontal lines and V >= 2
\* vertical lines, the horizontal lines are in the order of their y and the
\* vertical lines in the order of their x, there are (H-1)*(V-1) cells, the
\* cell of the h-th pair of consecutive horizontal lines and the v-th pair of
\* consecutive vertical lines spans from the first line of each pair to the second,
\* and no cell reaches outside the first and the last line of either order.
C9_CellsOfConsecutivePairs ==
    (pc = "cells" /\ Len(horizontalLines) >= 2 /\ Len(verticalLines) >= 2) =>
        LET H == Len(horizontalLines)
            V == Len(verticalLines)
        IN  /\ \A h \in 1..(H - 1) : horizontalLines[h].y <= horizontalLines[h + 1].y
            /\ \A v \in 1..(V - 1) : verticalLines[v].x <= verticalLines[v + 1].x
            /\ Len(cells) = (H - 1) * (V - 1)
            /\ \A h \in 1..(H - 1), v \in 1..(V - 1) :
                   LET cell == cells[(h - 1) * (V - 1) + v]
                   IN  /\ cell.x = verticalLines[v].x
                       /\ cell.x + cell.width = verticalLines[v + 1].x
                       /\ cell.y = horizontalLines[h].y
                       /\ cell.y + cell.height = horizontalLines[h + 1].y
                       /\ cell.elements = <<>>
            /\ \A k \in 1..Len(cells) :
                   /\ verticalLines[1].x <= cells[k].x
                   /\ cells[k].x + cells[k].width <= verticalLines[V].x
                   /\ horizontalLines[1].y <= cells[k].y
                   /\ cells[k].y + cells[k].height <= horizontalLines[H].y
C9_TwoRowsOfCells ==
    /\ pc = "cells"
    /\ Len(horizontalLines) = 3 /\ Len(verticalLines) = Columns + 1
    /\ Len(cells) = 2 * Columns
    /\ cells[1].x < cells[2].x /\ cells[1].y < cells[Columns + 1].y

\* C10: of the rectangles the walk has committed, the horizontal lines are the
\* ones of height <= 2 and width >= 200, in the order of the walk, and the
\* vertical lines the ones that are not horizontal and have width <= 2 and
\* height >= 10; no rectangle is in both, and every side of every cell comes
\* from a line of the matching set, so that no other rectangle takes part in the
\* grid.
HorizontalShape(r) == r.height <= 2 /\ r.width >= 200
VerticalShape(r) == ~HorizontalShape(r) /\ r.width <= 2 /\ r.height >= 10
Among(r, list) == \E k \in 1..Len(list) : list[k] = r
C10_LineClassification ==
    /\ pc = "sortLines" =>
          /\ horizontalLines = SelectSeq(walk.lines, HorizontalShape)
          /\ verticalLines = SelectSeq(walk.lines, VerticalShape)
    /\ pc \in {"sortLines", "construct", "cells"} =>
          /\ \A i \in 1..Len(walk.lines) :
                /\ Among(walk.lines[i], horizontalLines) <=> HorizontalShape(walk.lines[i])
                /\ Among(walk.lines[i], verticalLines) <=> VerticalShape(walk.lines[i])
                /\ ~(Among(walk.lines[i], horizontalLines) /\ Among(walk.lines[i], verticalLines))
          /\ \A k \in 1..Len(horizontalLines) : Among(horizontalLines[k], walk.lines)
          /\ \A k \in 1..Len(verticalLines) : Among(verticalLines[k], walk.lines)
          /\ Len(horizontalLines) + Len(verticalLines) <= Len(walk.lines)
    /\ pc = "cells" =>
          \A k \in 1..Len(cells) :
              /\ \E v \in 1..Len(walk.lines) :
                    VerticalShape(walk.lines[v]) /\ walk.lines[v].x = cells[k].x
              /\ \E h \in 1..Len(walk.lines) :
                    HorizontalShape(walk.lines[h]) /\ walk.lines[h].y = cells[k].y
C10_AtTheLimits ==
    /\ pc = "cells"
    /\ Len(walk.lines) = 2
    /\ walk.lines[1].width = 200 /\ walk.lines[1].height = 2
    /\ walk.lines[2].width = 199 /\ walk.lines[2].height = 2
    /\ Len(horizontalLines) = 1 /\ horizontalLines[1] = walk.lines[1]
    /\ verticalLines = <<>>

\* ------------------------------------------------------------------ functions called on their own

\* Everything parsePdf and parseCells keep, and its value while neither runs.
parserState ==
    <<pdf, pageIndex, page, pageLocals, outcome, developmentApplications, returned, log,
      walker, gazetteer>>
NothingParsed ==
    /\ pdf = <<>> /\ pageIndex = 0 /\ page = Undefined
    /\ cells = <<>> /\ elements = <<>> /\ rows = <<>>
    /\ headings = NoHeadingCells /\ rowIndex = 0
    /\ outcome = "none"
    /\ developmentApplications = <<>> /\ returned = Undefined /\ log = <<>>
    /\ operators = <<>> /\ opIndex = 0 /\ walk = WalkStart
    /\ horizontalLines = <<>> /\ verticalLines = <<>>
    /\ StreetNames = readAddressInformation.StreetNames
    /\ StreetSuffixes = readAddressInformation.StreetSuffixes
    /\ SuburbNames = readAddressInformation.SuburbNames
Call(fn, args) == [fn |-> fn, args |-> args]

\* ------------------------------------------------------------------ the geometry, called on its own

\* Rectangles of width and height 0 or more, apart, touching, overlapping and equal.
Rectangles ==
    {Rectangle(x, y, width, height) :
        x \in {0, 1, 10}, y \in {0, 3, 6}, width \in {0, 9, 10}, height \in {0, 5}}
\* The cells of one row and a heading cell above them.
RowCells == {Cell(x, 6, width, 5) : x \in {0, 1, 10}, width \in {0, 9, 10}}
HeadingCells == {Cell(x, 0, width, 5) : x \in {0, 1, 10}, width \in {0, 9, 10}}
Optional(set) == {Undefined} \cup {Some(v) : v \in set}
GeometryCalls ==
    {Call("intersect", <<a, b>>) : a \in Rectangles, b \in Rectangles}
    \cup {Call("getPercentageOfElementInCell", <<a, b>>) : a \in Rectangles, b \in Rectangles}
    \cup {Call("getHorizontalOverlapPercentage", <<a, b>>) :
             a \in Optional(Rectangles), b \in Optional(Rectangles)}
    \cup {Call("find", <<Sort(<<a, b>>, "rowCellComparer"), h>>) :
             a \in RowCells, b \in RowCells, h \in Optional(HeadingCells)}

InitGeometry ==
    /\ arguments \in GeometryCalls
    /\ returnValue = Undefined
    /\ database = <<>>
    /\ main = MainNotCalled
    /\ pc = "call"
    /\ NothingParsed

CallIntersect ==
    /\ pc = "call" /\ arguments.fn = "intersect"
    /\ returnValue' = Some(intersect(arguments.args[1], arguments.args[2]))
    /\ pc' = "returned"
    /\ UNCHANGED <<arguments, database, main, parserState>>
CallGetPercentageOfElementInCell ==
    /\ pc = "call" /\ arguments.fn = "getPercentageOfElementInCell"
    /\ returnValue' = Some(getPercentageOfElementInCell(arguments.args[1], arguments.args[2]))
    /\ pc' = "returned"
    /\ UNCHANGED <<arguments, database, main, parserState>>
CallGetHorizontalOverlapPercentage ==
    /\ pc = "call" /\ arguments.fn = "getHorizontalOverlapPercentage"
    /\ returnValue' = Some(getHorizontalOverlapPercentage(arguments.args[1], arguments.args[2]))
    /\ pc' = "returned"
    /\ UNCHANGED <<arguments, database, main, parserState>>
\* row.find(cell => getHorizontalOverlapPercentage(cell, headingCell) > 90).
CallFindColumnCell ==
    /\ pc = "call" /\ arguments.fn = "find"
    /\ returnValue' = Some(FindColumnCell(arguments.args[1], arguments.args[2]))
    /\ pc' = "returned"
    /\ UNCHANGED <<arguments, database, main, parserState>>

NextGeometry ==
    \/ CallIntersect
    \/ CallGetPercentageOfElementInCell
    \/ CallGetHorizontalOverlapPercentage
    \/ CallFindColumnCell

SpecGeometry == InitGeometry /\ [][NextGeometry]_vars

\* ------------------------------------------------------------------ properties of the geometry

Returned(fn) == pc = "returned" /\ arguments.fn = fn
\* The spans of two rectangles on an axis have a part of positive length in common.
SpansOverlap(start1, length1, start2, length2) ==
    Max(start1, start2) < Min(start1 + length1, start2 + length2)

\* C11: for rectangles A and B of width and height 0 or more, intersect(A, B) and
\* intersect(B, A) have the same area; getPercentageOfElementInCell(element, cell)
\* is at least 0 and at most 100, and it is 0 when the rectangles have no overlap
\* on the x axis or none on the y axis, and 0 for an element of area 0.
C11_IntersectionAndPercentage ==
    /\ Returned("intersect") =>
          getArea(Get(returnValue)) = getArea(intersect(arguments.args[2], arguments.args[1]))
    /\ Returned("getPercentageOfElementInCell") =>
          LET element == arguments.args[1]
              cell == arguments.args[2]
              percentage == Get(returnValue)
          IN  /\ percentage[2] > 0
              /\ 0 <= percentage[1] /\ percentage[1] <= 100 * percentage[2]
              /\ ~SpansOverlap(element.x, element.width, cell.x, cell.width)
                    => percentage[1] = 0
              /\ ~SpansOverlap(element.y, element.height, cell.y, cell.height)
                    => percentage[1] = 0
              /\ element.width * element.height = 0 => percentage[1] = 0
C11_PartOfElementInCell ==
    /\ Returned("getPercentageOfElementInCell")
    /\ arguments.args[1] = Rectangle(1, 3, 10, 5)
    /\ arguments.args[2] = Rectangle(0, 6, 10, 5)
    /\ Get(returnValue)[1] = 36 * Get(returnValue)[2]

\* C19: getHorizontalOverlapPercentage(a, b) is 0 when a or b is undefined, when
\* either width is 0 and when the x spans have no part in common; otherwise it is
\* 100 * (min(end) - max(start)) / (max(end) - min(start)) of the x spans, whatever
\* y and height are; it is the same for (b, a) and lies between 0 and 100.  The
\* cell found in a row for a heading cell is the first cell of the row, which is
\* in the order of x, whose value against the heading cell is more than 90, and
\* no cell when none is: a cell at 90 is passed over.
OverNinety(cell, headingCell) ==
    /\ IsDefined(headingCell)
    /\ cell.width > 0 /\ Get(headingCell).width > 0
    /\ SpansOverlap(cell.x, cell.width, Get(headingCell).x, Get(headingCell).width)
    /\ 100 * (Min(cell.x + cell.width, Get(headingCell).x + Get(headingCell).width)
                 - Max(cell.x, Get(headingCell).x))
          > 90 * (Max(cell.x + cell.width, Get(headingCell).x + Get(headingCell).width)
                     - Min(cell.x, Get(headingCell).x))
C19_HorizontalOverlap ==
    /\ Returned("getHorizontalOverlapPercentage") =>
          LET a == arguments.args[1]
              b == arguments.args[2]
              percentage == Get(returnValue)
              swapped == getHorizontalOverlapPercentage(b, a)
          IN  /\ percentage[2] > 0
              /\ 0 <= percentage[1] /\ percentage[1] <= 100 * percentage[2]
              /\ percentage[1] * swapped[2] = swapped[1] * percentage[2]
              /\ IF \/ ~IsDefined(a) \/ ~IsDefined(b)
                    \/ Get(a).width = 0 \/ Get(b).width = 0
                    \/ ~SpansOverlap(Get(a).x, Get(a).width, Get(b).x, Get(b).width)
                 THEN percentage[1] = 0
                 ELSE percentage[1] * (Max(Get(a).x + Get(a).width, Get(b).x + Get(b).width)
                                          - Min(Get(a).x, Get(b).x))
                         = 100 * (Min(Get(a).x + Get(a).width, Get(b).x + Get(b).width)
                                     - Max(Get(a).x, Get(b).x)) * percentage[2]
    /\ Returned("find") =>
          LET row == arguments.args[1]
              headingCell == arguments.args[2]
          IN  /\ \A i \in 1..(Len(row) - 1) : row[i].x <= row[i + 1].x
              /\ IF \E i \in 1..Len(row) : OverNinety(row[i], headingCell)
                 THEN \E i \in 1..Len(row) :
                          /\ returnValue = Some(Some(row[i]))
                          /\ OverNinety(row[i], headingCell)
                          /\ \A j \in 1..(i - 1) : ~OverNinety(row[j], headingCell)
                 ELSE returnValue = Some(Undefined)
C19_CellAtNinetyPassedOver ==
    /\ Returned("find")
    /\ arguments.args[2] = Some(Cell(0, 0, 10, 5))
    /\ arguments.args[1] = <<Cell(0, 6, 9, 5), Cell(0, 6, 10, 5)>>
    /\ returnValue = Some(Some(Cell(0, 6, 10, 5)))

\* ------------------------------------------------------------------ the address functions, called on their own

\* Street texts: known streets with a suffix to expand, in lower case, behind a
\* long prefix, misspelt by one, five and six characters, unknown, of one word.
StreetTexts ==
    {<<"2", "2", " ", "S", "M", "Y", "T", "H", " ", "R", "D">>, <<"2", "2", " ", "S", "M", "Y", "T", "H", " ", "R", "O", "A", "D">>, <<"1", " ", "m", "a", "i", "n", " ", "s", "t">>,
     <<"L", "O", "T", " ", "5", " ", "S", "E", "C", " ", "3", " ", "H", "D", " ", "X", " ", "2", "2", " ", "S", "M", "Y", "T", "H", " ", "R", "D">>, <<"2", "2", " ", " ", "S", "M", "Y", "T", "H", " ", "R", "D">>,
     <<"2", "2", " ", "S", "M", "Y", "H", "T", " ", "R", "D">>, <<"9", " ", "X", "X", "X", "X", "X", " ", "R", "D">>, <<"9", " ", "X", "X", "X", "X", "X", "X", " ", "R", "D">>, <<"L", "O", "T", " ", "5", " ", "2", "2", " ", "S", "M", "Y", "H", "T", " ", "R", "D">>, <<"2", " ", "S", "M", "Y", "H", "T", " ", "R", "D">>,
     <<" ", "9", " ", "e", "l", "m", " ">>, <<"9", " ", "E", "L", "M", " ", "R", "D">>, <<"2", "2", " ", "B", "R", "O", "A", "D", "W", "A", "Y">>, <<"B", "R", "O", "A", "D", "W", "A", "Y">>, <<"5", " ", "H", "I", "G", "H", " ", "T", "E", "R", "R", "A", "C", "E", " ", "N", "O", "R", "T", "H">>, <<>>}
\* The addresses '<prefix> <STREET>, <SUBURB>' of the known streets and suburbs.
Prefixes == {<<"2", "2">>, <<"U", "N", "I", "T", " ", "2", ",", " ", "2", "2">>}
KnownAddresses ==
    {prefix \o <<" ">> \o StreetNames[i][1] \o <<",", " ">> \o SuburbNames[k][1] :
        prefix \in Prefixes, i \in 1..Len(StreetNames), k \in 1..Len(SuburbNames)}
\* Other addresses: a suburb misspelt by one, two and three characters, a terrace,
\* an address without a comma, an address in lower case with spaces around it.
OtherAddresses ==
    {<<"2", "2", " ", "S", "M", "Y", "T", "H", " ", "R", "D", ",", " ", "T", "O", "W", "N", "S", "V", "I", "L", "E">>, <<"2", "2", " ", "S", "M", "Y", "T", "H", " ", "R", "D", ",", " ", "T", "O", "W", "N", "S", "V", "I", "L">>, <<"2", "2", " ", "S", "M", "Y", "T", "H", " ", "R", "D", ",", " ", "T", "O", "W", "N", "S", "V", "I">>,
     <<"U", "N", "I", "T", " ", "2", ",", " ", "2", "2", " ", "S", "M", "Y", "H", "T", " ", "R", "D", ",", " ", "T", "O", "W", "N", "S", "V", "I", "L", "L", "E">>, <<"5", " ", "H", "I", "G", "H", " ", "T", "C", "E", " ", "N", "T", "H", ",", " ", "M", "T", " ", "H", "O", "P", "E">>,
     <<"7", " ", "L", "O", "W", " ", "T", "C", "E", " ", "W", "E", "S", "T", ",", " ", "T", "O", "W", "N", "S", "V", "I", "L", "L", "E">>, <<"2", "2", " ", "S", "M", "Y", "T", "H", " ", "R", "D", " ", "T", "O", "W", "N", "S", "V", "I", "L", "L", "E">>,
     <<" ", " ", "1", " ", "m", "a", "i", "n", " ", "s", "t", " ", ",", " ", "t", "o", "w", "n", "s", "v", "i", "l", "l", "e", " ">>, <<"9", " ", "E", "L", "M", ",", " ", "X", "Y", "Z", "Z", "Y">>, <<",", " ", "T", "O", "W", "N", "S", "V", "I", "L", "L", "E">>}
AddressCalls ==
    {Call("formatStreetName", <<text>>) : text \in StreetTexts}
    \cup {Call("formatAddress", <<text>>) : text \in KnownAddresses \cup OtherAddresses}

\* readAddressInformation has run.
InitAddress ==
    /\ NothingParsed
    /\ arguments \in AddressCalls
    /\ returnValue = Undefined
    /\ database = <<>>
    /\ main = MainNotCalled
    /\ pc = "call"

CallFormatStreetName ==
    /\ pc = "call" /\ arguments.fn = "formatStreetName"
    /\ returnValue' = Some(formatStreetName(arguments.args[1]))
    /\ pc' = "returned"
    /\ UNCHANGED <<arguments, database, main, parserState>>
CallFormatAddress ==
    /\ pc = "call" /\ arguments.fn = "formatAddress"
    /\ returnValue' = Some(formatAddress(arguments.args[1]))
    /\ pc' = "returned"
    /\ UNCHANGED <<arguments, database, main, parserState>>

NextAddress ==
    \/ CallFormatStreetName
    \/ CallFormatAddress

SpecAddress == InitAddress /\ [][NextAddress]_vars

\* ------------------------------------------------------------------ properties of the address functions

\* The upper-cased tokens of a street text, the last one expanded by the suffix table.
SuffixExpanded(text) ==
    LET tokens == Split(ToUpperCase(Trim(text)))
    IN  [i \in 1..Len(tokens) |->
            IF i = Len(tokens) /\ \E k \in 1..Len(StreetSuffixes) : StreetSuffixes[k][1] = tokens[i]
            THEN StreetSuffixes[CHOOSE k \in 1..Len(StreetSuffixes) : StreetSuffixes[k][1] = tokens[i]][2]
            ELSE tokens[i]]
\* The last size tokens, joined by single spaces.
Window(tokens, size) == Join(SliceLast(tokens, size), <<" ">>)
\* Some window of 6 down to 2 tokens is exactly a known street name.
ExactHit(tokens) ==
    \E size \in 2..6 : \E i \in 1..Len(StreetNames) : StreetNames[i][1] = Window(tokens, size)

\* C12: formatStreetName expands the last token through the suffix table and, when a
\* window of the last 6 down to 2 tokens is exactly a known street name, returns all
\* the tokens joined by single spaces: the house number and the prefix are kept, the
\* suffix is expanded.  '22 SMYTH RD' returns '22 SMYTH ROAD'.
C12_ExactHitKeepsAllTokens ==
    Returned("formatStreetName") =>
        LET text == arguments.args[1]
            tokens == SuffixExpanded(text)
        IN  /\ ExactHit(tokens) => Get(returnValue) = Join(tokens, <<" ">>)
            /\ text = <<"2", "2", " ", "S", "M", "Y", "T", "H", " ", "R", "D">> => Get(returnValue) = <<"2", "2", " ", "S", "M", "Y", "T", "H", " ", "R", "O", "A", "D">>
C12_SmythRoadExpanded ==
    /\ Returned("formatStreetName")
    /\ arguments.args[1] = <<"2", "2", " ", "S", "M", "Y", "T", "H", " ", "R", "D">>
    /\ ExactHit(SuffixExpanded(arguments.args[1]))
    /\ Get(returnValue) = <<"2", "2", " ", "S", "M", "Y", "T", "H", " ", "R", "O", "A", "D">>

\* C13: for every address '<prefix> <STREET>, <SUBURB>' whose STREET is a known street
\* name and whose SUBURB is a known suburb name, formatAddress returns
\* '<prefix> <STREET>, <canonical suburb>': nothing but the suburb is changed.
C13_KnownAddressUnchanged ==
    Returned("formatAddress") =>
        \A i \in 1..Len(StreetNames), k \in 1..Len(SuburbNames) :
            LET text == arguments.args[1]
                ending == <<" ">> \o StreetNames[i][1] \o <<",", " ">> \o SuburbNames[k][1]
            IN  EndsWith(text, ending) /\ Len(text) > Len(ending) =>
                    Get(returnValue) =
                        SubSeq(text, 1, Len(text) - Len(SuburbNames[k][1])) \o SuburbNames[k][2]

\* The edit distance didyoumean2 computes between a text and a key.
Distance(text, key) == Leven(NormalizeString(text), NormalizeString(key))
\* The keys within the threshold of the text, and the first of the closest of them.
Within(text, object, threshold) ==
    {i \in 1..Len(object) : Distance(text, object[i][1]) <= threshold}
FirstClosest(text, object, i) ==
    /\ \A j \in 1..Len(object) : Distance(text, object[i][1]) <= Distance(text, object[j][1])
    /\ \A j \in 1..(i - 1) : Distance(text, object[j][1]) > Distance(text, object[i][1])
\* The places of the commas of a text.
Commas(text) == {i \in 1..Len(text) : text[i] = ","}

\* C14: formatAddress makes the terrace substitutions, splits the address at its last
\* comma and matches the part after it against the suburb names within an edit distance
\* of 2; on a match it returns formatStreetName of the part before the comma, ', ' and
\* the canonical string of the first closest suburb.  Without a comma or a match the
\* address is returned as substituted.
C14_SplitAtLastComma ==
    Returned("formatAddress") =>
        LET address == TerraceReplacements(Trim(arguments.args[1]))
            last == CHOOSE i \in Commas(address) : \A j \in Commas(address) : j <= i
            before == SubSeq(address, 1, last - 1)
            after == SubSeq(address, last + 1, Len(address))
        IN  /\ Commas(address) = {} => Get(returnValue) = address
            /\ Commas(address) # {} /\ Within(after, SuburbNames, 2) = {} =>
                   Get(returnValue) = address
            /\ Commas(address) # {} /\ Within(after, SuburbNames, 2) # {} =>
                   \E k \in Within(after, SuburbNames, 2) :
                       /\ FirstClosest(after, SuburbNames, k)
                       /\ Get(returnValue) =
                              formatStreetName(before) \o <<",", " ">> \o SuburbNames[k][2]
            /\ arguments.args[1] = <<"5", " ", "H", "I", "G", "H", " ", "T", "C", "E", " ", "N", "T", "H", ",", " ", "M", "T", " ", "H", "O", "P", "E">> =>
                   Get(returnValue) = <<"5", " ", "H", "I", "G", "H", " ", "T", "E", "R", "R", "A", "C", "E", " ", "N", "O", "R", "T", "H", ",", " ", "M", "O", "U", "N", "T", " ", "H", "O", "P", "E", " ", "S", "A", " ", "5", "6", "0", "7">>
C14_TerraceBeforeStreetMatch ==
    /\ Returned("formatAddress")
    /\ arguments.args[1] = <<"5", " ", "H", "I", "G", "H", " ", "T", "C", "E", " ", "N", "T", "H", ",", " ", "M", "T", " ", "H", "O", "P", "E">>
    /\ formatStreetName(<<"5", " ", "H", "I", "G", "H", " ", "T", "C", "E", " ", "N", "T", "H">>) = <<"5", " ", "H", "I", "G", "H", " ", "T", "C", "E", " ", "N", "T", "H">>
    /\ Get(returnValue) = <<"5", " ", "H", "I", "G", "H", " ", "T", "E", "R", "R", "A", "C", "E", " ", "N", "O", "R", "T", "H", ",", " ", "M", "O", "U", "N", "T", " ", "H", "O", "P", "E", " ", "S", "A", " ", "5", "6", "0", "7">>

\* No window of 6 down to 2 tokens is within 7 less its size of a known street name.
NoFuzzyHit(tokens) ==
    \A size \in 2..6 : Within(Window(tokens, size), StreetNames, 7 - size) = {}

\* C16: when no window of 6 down to 2 tokens is a known street name, exactly or within
\* its edit distance, formatStreetName returns the text it was given: the suffix is
\* not expanded, the case is kept and so are the spaces around the text.
C16_UnknownStreetVerbatim ==
    Returned("formatStreetName") =>
        LET tokens == SuffixExpanded(arguments.args[1])
        IN  ~ExactHit(tokens) /\ NoFuzzyHit(tokens) => Get(returnValue) = arguments.args[1]
C16_LowerCaseAndSpacesKept ==
    /\ Returned("formatStreetName")
    /\ arguments.args[1] = <<" ", "9", " ", "e", "l", "m", " ">>
    /\ NoFuzzyHit(SuffixExpanded(arguments.args[1]))
    /\ Get(returnValue) = <<" ", "9", " ", "e", "l", "m", " ">>

Row(developmentApplication) ==
    <<developmentApplication.applicationNumber, developmentApplication.address,
      developmentApplication.description, developmentApplication.informationUrl,
      developmentApplication.commentUrl, developmentApplication.scrapeDate,
      developmentApplication.receivedDate, developmentApplication.legalDescription>>
\* A row of the table has the primary key council_reference.
HasRow(table, reference) == \E i \in 1..Len(table) : table[i][1] = reference

\* An "insert or replace": the row of the same primary key is overwritten.
insertOrReplace(table, row) ==
    IF HasRow(table, row[1])
    THEN [i \in 1..Len(table) |-> IF table[i][1] = row[1] THEN row ELSE table[i]]
    ELSE Append(table, row)

\* "insert or ignore into [data]": a row whose primary key is in the table is ignored.
insertOrIgnore(table, row) == IF HasRow(table, row[1]) THEN table ELSE Append(table, row)
\* this.changes: the number of table the statement inserted.
changes(table, row) == IF HasRow(table, row[1]) THEN 0 ELSE 1

\* The records main hands to insertRow: two application numbers, each parsed with
\* two different addresses.
Records ==
    {[applicationNumber |-> applicationNumber, address |-> address,
      description |-> <<"S", "H", "E", "D">>, informationUrl |-> InformationUrl,
      commentUrl |-> CommentUrl, scrapeDate |-> Today,
      receivedDate |-> <<>>, legalDescription |-> <<>>] :
        applicationNumber \in {<<"9", "1", "0", "/", "1", "/", "1", "9">>, <<"9", "1", "0", "/", "2", "/", "1", "9">>},
        address \in {<<"1", " ", "M", "A", "I", "N", " ", "S", "T", "R", "E", "E", "T", ",", " ", "T", "O", "W", "N", "S", "V", "I", "L", "L", "E", " ", "S", "A", " ", "5", "0", "0", "0">>, <<"2", "2", " ", "S", "M", "Y", "T", "H", " ", "R", "O", "A", "D", ",", " ", "T", "O", "W", "N", "S", "V", "I", "L", "L", "E", " ", "S", "A", " ", "5", "0", "0", "0">>}}
\* data.sqlite as an earlier run left it: absent, or holding a row.
ExistingTables ==
    {<<>>} \cup {<<Row(developmentApplication)>> : developmentApplication \in Records}
MaxInserts == 3

\* Everything but the database, the console and the call in progress.
parsed ==
    <<pdf, pageIndex, page, pageLocals, outcome, developmentApplications, returned, walker,
      gazetteer>>

InitStore ==
    /\ NothingParsed
    /\ arguments = Call("main", <<>>)
    /\ returnValue = Undefined
    /\ database \in ExistingTables
    /\ main = MainNotCalled
    /\ pc = "open"

\* "create table if not exists [data]": the table of an existing table are kept.
InitializeDatabase ==
    /\ pc = "open"
    /\ arguments' = Call("initializeDatabase", <<>>)
    /\ returnValue' = Some(database)
    /\ database' = database
    /\ pc' = "insert"
    /\ UNCHANGED <<log, main, parsed>>

\* One turn of the loop of main over the parsed records: insertRow runs the statement,
\* writes the console line that this.changes selects and resolves.
InsertRow ==
    /\ pc = "insert"
    /\ Len(log) < MaxInserts
    /\ \E developmentApplication \in Records :
           /\ arguments' = Call("insertRow", <<developmentApplication>>)
           /\ database' = insertOrIgnore(database, Row(developmentApplication))
           /\ log' = Append(log, IF changes(database, Row(developmentApplication)) > 0
                                 THEN "Inserted" ELSE "Skipped")
    /\ returnValue' = Some(Undefined)
    /\ pc' = "insert"
    /\ UNCHANGED <<main, parsed>>

NextStore ==
    \/ InitializeDatabase
    \/ InsertRow

SpecStore == InitStore /\ [][NextStore]_vars

\* ------------------------------------------------------------------ properties of the database

\* The record of the insertRow call that has just resolved.
Inserting == arguments'.args[1]

\* C15: the table holds at most one row for an application number; a row, once in the
\* table, is never changed; insertRow of a record whose application number is in the
\* table leaves the table as it is, writes the "Skipped" line and resolves; insertRow
\* of any other record appends its row and writes the "Inserted" line.
C15_InsertIfAbsent ==
    /\ [](\A i, j \in 1..Len(database) : database[i][1] = database[j][1] => i = j)
    /\ [][pc = "insert" =>
            /\ \A i \in 1..Len(database) : database'[i] = database[i]
            /\ HasRow(database, Inserting.applicationNumber) =>
                   /\ database' = database
                   /\ log'[Len(log')] = "Skipped"
                   /\ pc' = "insert"
            /\ ~HasRow(database, Inserting.applicationNumber) =>
                   /\ database' = Append(database, Row(Inserting))
                   /\ log'[Len(log')] = "Inserted"]_vars
C15_SecondAddressSkipped ==
    /\ pc = "insert" /\ log # <<>> /\ log[Len(log)] = "Skipped"
    /\ Len(database) = 2
    /\ \E i \in 1..Len(database) :
           /\ database[i][1] = arguments.args[1].applicationNumber
           /\ database[i][2] # arguments.args[1].address

\* ------------------------------------------------------------------ properties of the binding and of the headings

\* The area an element and a cell have in common.
Shared(element, cell) ==
    LET across == Min(element.x + element.width, cell.x + cell.width) - Max(element.x, cell.x)
        down == Min(element.y + element.height, cell.y + cell.height) - Max(element.y, cell.y)
    IN  IF across >= 0 /\ down >= 0 THEN across * down ELSE 0
\* The cells that hold more than 50 percent of the area of the element.
Holders(element, cellList) ==
    {i \in 1..Len(cellList) :
        100 * Shared(element, cellList[i]) > 50 * element.width * element.height}
Lowest(S) == CHOOSE n \in S : \A m \in S : n <= m

\* The elements whose first holder is the cell of index i, in the order of the elements.
HeldBy(elementList, cellList, i) ==
    LET IsHeld(element) ==
            /\ Holders(element, cellList) # {}
            /\ Lowest(Holders(element, cellList)) = i
    IN  SelectSeq(elementList, IsHeld)

Bare(text) == StripSpace(ToLowerCase(text))
JoinedBare(cell) ==
    Bare(Join([k \in 1..Len(cell.elements) |-> cell.elements[k].text], <<" ">>))
\* The first of the cells whose indexes are given, or Undefined when there is none.
FirstOf(cellList, indexes) ==
    IF indexes = {} THEN Undefined ELSE Some(cellList[Lowest(indexes)])
\* The labels of the columns that have one label, with the fields of their heading cells.
SingleLabels ==
    {<<"applicationNumber", LabelApplicationNumber>>, <<"receivedDate", LabelReceivedDate>>,
     <<"streetName", LabelStreetName>>, <<"suburbName", LabelSuburbName>>,
     <<"description", LabelDescription>>}
\* The heading cells, given which cells carry a label.
HeadingsBy(Carries(_, _)) ==
    LET With(label) == {i \in 1..Len(cells) : Carries(cells[i], label)}
    IN  /\ \A pair \in SingleLabels : headings'[pair[1]] = FirstOf(cells, With(pair[2]))
        /\ headings'.legalDescription =
               IF With(LabelLegalDescription) # {}
               THEN FirstOf(cells, With(LabelLegalDescription))
               ELSE FirstOf(cells, With(LabelLegalDescriptionFallback))

\* C20 as the claim states it: a cell is the heading cell of a label exactly when the
\* joined text of its elements, in lower case and without white space, is the label.
C20_JoinedTextIsLabel ==
    [][pc = "headings" =>
          HeadingsBy(LAMBDA cell, label : JoinedBare(cell) = label)]_vars

\* C20: a cell is the heading cell of a label exactly when the text of one of its
\* elements, in lower case and without white space, is the label, and it is the first
\* such cell of the sorted cells; the legal description heading is the first cell with
\* 'allotmentor' and, only when there is none, the first cell with 'allotment/'.
C20_OneElementIsLabel ==
    [][pc = "headings" =>
          HeadingsBy(LAMBDA cell, label :
                         \E k \in 1..Len(cell.elements) : Bare(cell.elements[k].text) = label)]_vars
C20_SecondFragmentBesideLabel ==
    /\ pc = "rows"
    /\ IsDefined(headings.suburbName)
    /\ Len(Get(headings.suburbName).elements) = 2
    /\ JoinedBare(Get(headings.suburbName)) # LabelSuburbName

\* ------------------------------------------------------------------ the walk of parseCells over any operator list

\* The operators the lists are made of: the save and the restore, a translation and
\* a reflection of the y axis, a rule of the grid, a path of two rectangles between
\* a moveTo and a lineTo, the two fills and the stroke.
Translation == <<1, 0, 0, 1, Shift, Shift>>
Reflection == <<1, 0, 0, -1, 0, RowHeight>>
TwoRectanglePath ==
    Operator("constructPath", <<"moveTo", "rectangle", "lineTo", "rectangle">>,
             <<0, 0, 0, 0, 1, 2 * RowHeight, 5, 5, 0, RowHeight, GridWidth, 1>>)
WalkAlphabet ==
    {OpSave, OpRestore, OpTransform(Translation), OpTransform(Reflection),
     OpRectangle(0, 0, GridWidth, 1), TwoRectanglePath, OpFill, OpEoFill, OpStroke}
MaxOperators == 4
\* Longer lists: saves nested in saves with a transform at each depth and a rule
\* drawn at each, and a list that restores more often than it saves.
NestedLists ==
    {<<OpSave, OpTransform(Translation), OpSave, OpTransform(Reflection),
       OpRectangle(0, 0, GridWidth, 1), OpFill, OpRestore,
       OpRectangle(0, 0, GridWidth, 1), OpFill, OpRestore,
       OpRectangle(0, 0, GridWidth, 1), OpEoFill>>,
     <<OpTransform(Reflection), OpSave, OpSave, OpTransform(Translation), OpRestore,
       OpTransform(Translation), OpRestore, OpRectangle(0, 0, 1, 2 * RowHeight), OpFill>>,
     <<OpSave, OpRestore, OpRestore, OpSave, OpRestore, OpRestore, OpSave, OpRestore,
       OpRectangle(0, 0, GridWidth, 1), OpFill>>}
AnyOperatorLists ==
    UNION {[1..n -> WalkAlphabet] : n \in 0..MaxOperators} \cup NestedLists

\* parseCells has been called for a page with any of the operator lists.
InitWalk ==
    /\ operators \in AnyOperatorLists
    /\ opIndex = 1
    /\ walk = WalkStart
    /\ horizontalLines = <<>> /\ verticalLines = <<>>
    /\ cells = <<>>
    /\ pc = "walk"
    /\ pdf = <<>> /\ pageIndex = 0 /\ page = Undefined
    /\ elements = <<>> /\ rows = <<>> /\ headings = NoHeadingCells /\ rowIndex = 0
    /\ outcome = "none"
    /\ developmentApplications = <<>> /\ returned = Undefined /\ log = <<>>
    /\ StreetNames = readAddressInformation.StreetNames
    /\ StreetSuffixes = readAddressInformation.StreetSuffixes
    /\ SuburbNames = readAddressInformation.SuburbNames
    /\ arguments = Undefined /\ returnValue = Undefined /\ database = <<>>
    /\ main = MainNotCalled

SpecWalk == InitWalk /\ [][NextCells]_vars

\* ------------------------------------------------------------------ properties of the walk

\* The operator the walk is about to process.
AtOperator == pc = "walk" /\ opIndex <= Len(operators)
IsFill(operator) == operator.fn \in {"fill", "eoFill"}
\* The fills and the rectangle sub-operations among the first n operators.
FillsAmong(n) == {i \in 1..n : IsFill(operators[i])}
RectanglesAmong(n) ==
    {p \in UNION {{<<i, k>> : k \in 1..Len(operators[i].subOps)} : i \in 1..n} :
        operators[p[1]].fn = "constructPath" /\ operators[p[1]].subOps[p[2]] = "rectangle"}

\* C21: a fill (fill or eoFill) with a rectangle pending commits that rectangle, the
\* one of the last rectangle sub-operation, as a line and leaves none pending; a fill
\* with none pending commits nothing, and nothing but a fill commits a line.  So the
\* committed lines are never more than the fills nor than the rectangle sub-operations
\* the walk has passed.
C21_FillCommitsPending ==
    /\ [](/\ Len(walk.lines) <= Cardinality(FillsAmong(opIndex - 1))
          /\ Len(walk.lines) <= Cardinality(RectanglesAmong(opIndex - 1)))
    /\ [][AtOperator =>
            IF IsFill(operators[opIndex]) /\ IsDefined(walk.previousRectangle)
            THEN /\ walk'.lines = Append(walk.lines, Get(walk.previousRectangle))
                 /\ walk'.previousRectangle = Undefined
            ELSE /\ walk'.lines = walk.lines
                 /\ operators[opIndex].fn # "constructPath" =>
                        walk'.previousRectangle = walk.previousRectangle]_vars
C21_FirstOfTwoRectanglesDropped ==
    /\ pc = "walk" /\ opIndex = 4
    /\ operators[1] = TwoRectanglePath /\ operators[2] = OpStroke /\ operators[3] = OpEoFill
    /\ walk.lines = <<Rectangle(0, RowHeight, GridWidth, 1)>>
    /\ walk.previousRectangle = Undefined

\* The saves less the restores among the operators from, ..., to.
Depth(from, to) ==
    Cardinality({k \in from..to : operators[k].fn = "save"})
    - Cardinality({k \in from..to : operators[k].fn = "restore"})
\* The restore at j is the one that matches the save at i.
Matches(i, j) ==
    /\ i < j /\ operators[i].fn = "save" /\ operators[j].fn = "restore"
    /\ Depth(i + 1, j - 1) = 0
    /\ \A k \in (i + 1)..(j - 1) : Depth(i + 1, k) >= 0
\* The current transform when the walk comes to the operator at i.
TransformAt(i) == WalkOperators(WalkStart, SubSeq(operators, 1, i - 1), 1).transform
\* Three points that tell any two transforms apart.
Corners == {<<0, 0>>, <<1, 0>>, <<0, 1>>}
\* The last rectangle sub-operation of a path and the place of its four arguments.
LastRectangle(operator) ==
    Largest({k \in 1..Len(operator.subOps) : operator.subOps[k] = "rectangle"})
ArgumentsOf(operator, k) ==
    LET before == {m \in 1..(k - 1) : operator.subOps[m] \in {"moveTo", "lineTo", "rectangle"}}
        rectangles == {m \in before : operator.subOps[m] = "rectangle"}
        first == 2 * Cardinality(before) + 2 * Cardinality(rectangles) + 1
    IN  SubSeq(operator.args, first, first + 3)

\* C22: a save pushes the current transform and keeps it; a restore of a stack that
\* is not empty makes the popped transform the current one; a transform makes the
\* current transform map a point as the old one maps the image of the point under the
\* arguments, and leaves the stack as it is.  After a save and its matching restore
\* the current transform is the one the save found.  A rectangle is recorded with its
\* two corners mapped through the current transform.
C22_SaveRestoreCompose ==
    /\ [](pc = "walk" =>
             \A i \in 1..(opIndex - 1) :
                 Matches(i, opIndex - 1) => walk.transform = TransformAt(i))
    /\ [][AtOperator /\ ~walk'.thrown =>
            LET operator == operators[opIndex]
                stack == walk.transformStack
            IN  /\ operator.fn = "save" =>
                       /\ walk'.transformStack = Append(stack, walk.transform)
                       /\ walk'.transform = walk.transform
                /\ operator.fn = "restore" /\ stack # <<>> =>
                       /\ walk'.transform = stack[Len(stack)]
                       /\ walk'.transformStack = SubSeq(stack, 1, Len(stack) - 1)
                /\ operator.fn = "transform" =>
                       /\ walk'.transformStack = stack
                       /\ \A p \in Corners :
                              UtilApplyTransform(p, Get(walk'.transform)) =
                                  UtilApplyTransform(UtilApplyTransform(p, operator.args),
                                                     Get(walk.transform))
                /\ operator.fn \notin {"save", "restore", "transform"} =>
                       /\ walk'.transformStack = stack
                       /\ walk'.transform = walk.transform
                /\ (operator.fn = "constructPath"
                    /\ \E k \in 1..Len(operator.subOps) : operator.subOps[k] = "rectangle") =>
                       LET a == ArgumentsOf(operator, LastRectangle(operator))
                           r == Get(walk'.previousRectangle)
                       IN  /\ <<r.x, r.y>> =
                                  UtilApplyTransform(<<a[1], a[2]>>, Get(walk.transform))
                           /\ <<r.x + r.width, r.y + r.height>> =
                                  UtilApplyTransform(<<a[1] + a[3], a[2] + a[4]>>,
                                                     Get(walk.transform))]_vars
C22_NestedSavesRestored ==
    /\ pc = "walk" /\ opIndex = 11 /\ Len(operators) = 12
    /\ Matches(1, 10) /\ Matches(3, 7)
    /\ TransformAt(7) = Some(UtilTransform(Translation, Reflection))
    /\ walk.transform = Some(IdentityTransform)
    /\ walk.lines = <<Rectangle(Shift, Shift + RowHeight, GridWidth, -1),
                      Rectangle(Shift, Shift, GridWidth, 1)>>

\* C23: every rectangle the walk records, pending or committed, and every cell that
\* is constructed has a width and a height of 0 or more.
C23_NoNegativeSize ==
    /\ IsDefined(walk.previousRectangle) =>
           Get(walk.previousRectangle).width >= 0 /\ Get(walk.previousRectangle).height >= 0
    /\ \A i \in 1..Len(walk.lines) : walk.lines[i].width >= 0 /\ walk.lines[i].height >= 0
    /\ \A i \in 1..Len(cells) : cells[i].width >= 0 /\ cells[i].height >= 0

\* C29: whenever the walk comes to a transform or to a path with a rectangle
\* sub-operation, the current transform is defined and has six numbers.
C29_TransformDefined ==
    (/\ AtOperator
     /\ \/ operators[opIndex].fn = "transform"
        \/ /\ operators[opIndex].fn = "constructPath"
           /\ \E k \in 1..Len(operators[opIndex].subOps) :
                  operators[opIndex].subOps[k] = "rectangle") =>
        IsDefined(walk.transform) /\ Len(Get(walk.transform)) = 6

\* ------------------------------------------------------------------ properties of the rows

\* The rows of the page are assembled: grouped and sorted.
RowsAssembled == pc \in {"headings", "rows"}

Occurrences(list, value) == Cardinality({i \in 1..Len(list) : list[i] = value})
SameBag(list1, list2) ==
    /\ Len(list1) = Len(list2)
    /\ \A i \in 1..Len(list1) : Occurrences(list1, list1[i]) = Occurrences(list2, list1[i])
Placed(list) == [i \in 1..Len(list) |-> Rectangle(list[i].x, list[i].y, list[i].width, list[i].height)]
UpsideDown(rectangle) == [rectangle EXCEPT !.y = 0 - (rectangle.y + rectangle.height)]
Upturned(list) == [i \in 1..Len(list) |-> UpsideDown(list[i])]
AsConstructed == ConstructCells(horizontalLines, verticalLines)
AsParsed == parseElements(Get(page).items)
AfterInversion == {"sort", "allocate", "group", "sortRows", "headings", "rows"}

\* C25: the y of every cell and of every element of a page is inverted exactly once,
\* y = -(y + height), before the sorting, the binding, the grouping and the headings:
\* until the inversion the cells and the elements are as parseCells and parseElements
\* made them, in every later step of the page they are those cells and elements with
\* that y, in some order; and the part of an element that lies in a cell is the same
\* before the inversion of both as after it.
C25_InvertedOnce ==
    /\ pc \in {"parseElements", "invert"} => cells = AsConstructed
    /\ pc = "invert" => elements = AsParsed
    /\ pc \in AfterInversion =>
           /\ SameBag(Placed(cells), Placed(Upturned(AsConstructed)))
           /\ SameBag(elements, Upturned(AsParsed))
    /\ pc = "invert" =>
           \A i \in 1..Len(elements) : \A k \in 1..Len(cells) :
               LET before == getPercentageOfElementInCell(elements[i], cells[k])
                   after == getPercentageOfElementInCell(UpsideDown(elements[i]), UpsideDown(cells[k]))
               IN  before[1] * after[2] = after[1] * before[2]

C25_InvertedThenSortedAndBound ==
    /\ pc = "group"
    /\ Placed(cells) # Placed(Upturned(AsConstructed))
    /\ \E k \in 1..Len(cells) : cells[k].height > 0 /\ cells[k].y < 0 /\ cells[k].elements # <<>>
    /\ \E i \in 1..Len(elements) : elements[i].height > 0

\* ---- properties of the rows and the records ----

RowsGrouped == pc \in {"sortRows", "headings", "rows"}
RecordsOf(applications) == Len(applications)

\* C27: the grouping of the cells into rows is a partition of the cells of the page:
\* every cell is in exactly one row, no row is empty, and the rows hold as many cells
\* as were built; each row gives at most one record, so that a page gives no more
\* records than it has rows, and no other step of parsePdf adds or removes a record.
C27_RowsPartitionCells ==
    /\ [](RowsGrouped =>
              /\ SameBag(Concat(rows), cells)
              /\ Len(Concat(rows)) = Len(cells)
              /\ \A r \in 1..Len(rows) : rows[r] # <<>>)
    /\ [](Len(pdf) = 1 /\ pc \in {"rows", "loop", "returned"} =>
              /\ RecordsOf(developmentApplications) <= Len(rows)
              /\ pc = "rows" => RecordsOf(developmentApplications) <= rowIndex - 1)
    /\ [][IF pc = "rows"
          THEN /\ rowIndex' = rowIndex + 1
               /\ rows' = rows
               /\ \/ developmentApplications' = developmentApplications
                  \/ /\ RecordsOf(developmentApplications') = RecordsOf(developmentApplications) + 1
                     /\ SubSeq(developmentApplications', 1, Len(developmentApplications))
                            = developmentApplications
          ELSE developmentApplications' = developmentApplications]_vars

C27_FewerRecordsThanRows ==
    /\ pc = "returned" /\ Len(pdf) = 1
    /\ Len(rows) >= 3
    /\ \E r \in 1..Len(rows) : Len(rows[r]) >= 2
    /\ RecordsOf(developmentApplications) >= 1
    /\ RecordsOf(developmentApplications) < Len(rows)

\* ---- properties of the identifier check ----

DaAmended == <<"D", "A", " ", "5", "/", "1", "0", "/", "2", "1", " ", "a", "m", "e", "n", "d", "e", "d">>
IdentifierAccepted == log' # log

\* C28, as stated: the applicationNumber of every record is digits/digits/digits and
\* nothing else.
C28_ExactlyDigitGroups ==
    \A i \in 1..Len(developmentApplications) :
        DigitGroups(developmentApplications[i].applicationNumber)
\* C28, amended: the identifier check accepts the text of an identifier cell if and
\* only if some part of it is digits/digits/digits; a text with other characters
\* before or after such a part, as "DA 5/10/21 amended", is accepted, and the
\* applicationNumber of the record is the whole text, trimmed; so the
\* applicationNumber of a record always has a part that is digits/digits/digits.
C28_HasDigitGroups ==
    /\ [](\A i \in 1..Len(developmentApplications) :
             /\ MatchesPattern(developmentApplications[i].applicationNumber)
             /\ Trim(developmentApplications[i].applicationNumber)
                    = developmentApplications[i].applicationNumber)
    /\ [](ApplicationNumberRegexTest(DaAmended) /\ ~DigitGroups(DaAmended))
    /\ [][AtRow =>
            /\ IdentifierAccepted <=> ValidIdentifier
            /\ ~PushedNone => NewRecord.applicationNumber = Trim(IdentifierText)]_vars

C28_IdentifierWithSurroundingText ==
    /\ developmentApplications # <<>>
    /\ LastRecord.applicationNumber = <<"D", "A", " ", "5", "/", "1", "0", "/", "2", "1", " ", "X">>
    /\ ~DigitGroups(LastRecord.applicationNumber)

\* ------------------------------------------------------------------ main, step by step

DevelopmentApplicationsUrl == <<"h", "t", "t", "p", "s", ":", "/", "/", "w", "w", "w", ".", "l", "o", "w", "e", "r", "e", "y", "r", "e", "p", "e", "n", "i", "n", "s", "u", "l", "a", ".", "s", "a", ".", "g", "o", "v", ".", "a", "u", "/", "p", "a", "g", "e", ".", "a", "s", "p", "x", "?", "u", "=", "2", "6", "5">>

Includes(s, t) == \E i \in 1..(Len(s) - Len(t) + 1) : SubSeq(s, i, i + Len(t) - 1) = t
\* The scheme and the host of an absolute URL: the text before its third slash.
Origin(base) ==
    LET slashes == {i \in 1..Len(base) : base[i] = "/"}
        third == CHOOSE i \in slashes : Cardinality({k \in slashes : k < i}) = 2
    IN  SubSeq(base, 1, third - 1)
\* new urlparser.URL(href, base).href for an href that is an absolute URL, a path from
\* the root or a path beside the page, which lies at the root.
Href(href, base) ==
    IF Includes(href, <<":", "/", "/">>) THEN href
    ELSE IF StartsWith(href, <<"/">>) THEN Origin(base) \o href
    ELSE Origin(base) \o <<"/">> \o href

IsRegisterPdf(pdfUrl) ==
    /\ Includes(ToLowerCase(pdfUrl), <<"r", "e", "g", "i", "s", "t", "e", "r">>)
    /\ Includes(ToLowerCase(pdfUrl), <<".", "p", "d", "f">>)
\* A loop without the test that avoids duplicates.
RECURSIVE CollectPdfUrlsRepeated(_, _)
CollectPdfUrlsRepeated(pdfUrls, links) ==
    IF links = <<>> THEN pdfUrls
    ELSE LET pdfUrl == Href(links[1], DevelopmentApplicationsUrl)
         IN  CollectPdfUrlsRepeated(
                 IF IsRegisterPdf(pdfUrl)
                 THEN Append(pdfUrls, pdfUrl) ELSE pdfUrls,
                 Tail(links))

\* The loop over $("p a"): the URLs of the register documents, each once.
RECURSIVE CollectPdfUrls(_, _)
CollectPdfUrls(pdfUrls, links) ==
    IF links = <<>> THEN pdfUrls
    ELSE LET pdfUrl == Href(links[1], DevelopmentApplicationsUrl)
         IN  CollectPdfUrls(
                 IF IsRegisterPdf(pdfUrl) /\ ~(\E i \in 1..Len(pdfUrls) : pdfUrls[i] = pdfUrl)
                 THEN Append(pdfUrls, pdfUrl) ELSE pdfUrls,
                 Tail(links))

\* getRandom(minimum, maximum) for integers: the values it may return.
getRandom(minimum, maximum) == minimum..(maximum - 1)
Pop(array) == SubSeq(array, 1, Len(array) - 1)
Reverse(array) == [i \in 1..Len(array) |-> array[Len(array) + 1 - i]]
\* selectedPdfUrls for the two random numbers drawn; other is not drawn when pdfUrls has
\* one URL only.
SelectPdfUrls(pdfUrls, other, coin) ==
    LET last == <<pdfUrls[Len(pdfUrls)]>>
        selected == IF Len(Pop(pdfUrls)) > 0 THEN Append(last, Pop(pdfUrls)[other + 1]) ELSE last
    IN  IF coin = 0 THEN Reverse(selected) ELSE selected

\* The href attributes of the links in the paragraphs of the page.
Hrefs ==
    {<<"/", "f", "i", "l", "e", "s", "/", "R", "e", "g", "i", "s", "t", "e", "r", "2", "0", "1", "9", ".", "p", "d", "f">>,
     <<"h", "t", "t", "p", "s", ":", "/", "/", "w", "w", "w", ".", "l", "o", "w", "e", "r", "e", "y", "r", "e", "p", "e", "n", "i", "n", "s", "u", "l", "a", ".", "s", "a", ".", "g", "o", "v", ".", "a", "u", "/", "f", "i", "l", "e", "s", "/", "R", "e", "g", "i", "s", "t", "e", "r", "2", "0", "1", "9", ".", "p", "d", "f">>,
     <<"f", "i", "l", "e", "s", "/", "R", "E", "G", "I", "S", "T", "E", "R", "2", "0", "1", "8", ".", "P", "D", "F">>,
     <<"/", "f", "i", "l", "e", "s", "/", "r", "e", "g", "i", "s", "t", "e", "r", "2", "0", "1", "7", ".", "p", "d", "f">>,
     <<"/", "f", "i", "l", "e", "s", "/", "m", "i", "n", "u", "t", "e", "s", ".", "p", "d", "f">>}
MaxLinks == 3
LinkLists == UNION {[1..n -> Hrefs] : n \in 0..MaxLinks}
\* The documents the council serves: a register of two pages, the application number
\* of the first in two fragments, a register of one page that repeats an application
\* of the first, and a document whose operator list makes parseCells throw.
ServedDocuments ==
    {<<Page(FullGrid, TableItems(Deviate(WellFormedTable, {<<2, 1, 2>>}))),
       Page(FullGrid, TableItems(<<HeadingRow, SecondDataRow>>))>>,
     <<Page(FullGrid, TableItems(<<HeadingRow, SecondDataRow>>))>>,
     <<Page(UnbalancedGridOperators(3, Columns + 1, 2), TableItems(WellFormedTable))>>}

\* main has been called: nothing is read, the globals of the gazetteer are null.
InitMain ==
    /\ pdf = <<>> /\ pageIndex = 0 /\ page = Undefined
    /\ cells = <<>> /\ elements = <<>> /\ rows = <<>>
    /\ headings = NoHeadingCells /\ rowIndex = 0
    /\ outcome = "none"
    /\ developmentApplications = <<>> /\ returned = Undefined /\ log = <<>>
    /\ operators = <<>> /\ opIndex = 0 /\ walk = WalkStart
    /\ horizontalLines = <<>> /\ verticalLines = <<>>
    /\ StreetNames = Undefined /\ StreetSuffixes = Undefined /\ SuburbNames = Undefined
    /\ arguments = Call("main", <<>>) /\ returnValue = Undefined
    /\ database \in {<<>>, <<Row(CHOOSE record \in Records : TRUE)>>}
    /\ pc = "idle"
    /\ \E links \in LinkLists :
           main = [MainNotCalled EXCEPT !.pc = "initializeDatabase", !.links = links]

\* let database = await initializeDatabase().
AwaitInitializeDatabase ==
    /\ main.pc = "initializeDatabase"
    /\ database' = database
    /\ main' = [main EXCEPT !.pc = "readAddressInformation"]
    /\ UNCHANGED <<pc, arguments, returnValue, parserState>>

\* readAddressInformation().
ReadAddressInformation ==
    /\ main.pc = "readAddressInformation"
    /\ StreetNames' = readAddressInformation.StreetNames
    /\ StreetSuffixes' = readAddressInformation.StreetSuffixes
    /\ SuburbNames' = readAddressInformation.SuburbNames
    /\ main' = [main EXCEPT !.pc = "request"]
    /\ UNCHANGED <<pc, pdf, pageIndex, page, pageLocals, outcome, developmentApplications,
                   returned, log, walker, arguments, returnValue, database>>

\* The request of the page and the loop over its links, up to the test for no URL; the
\* page is not read again after the loop.
RequestPage ==
    /\ main.pc = "request"
    /\ LET pdfUrls == CollectPdfUrls(<<>>, main.links)
       IN  main' = [main EXCEPT !.pdfUrls = pdfUrls,
                                !.links = <<>>,
                                !.pc = IF Len(pdfUrls) = 0 THEN "complete" ELSE "select",
                                !.console = IF Len(pdfUrls) = 0 THEN Append(@, "NoPdfUrls")
                                            ELSE Append(@, "Found")]
    /\ UNCHANGED <<pc, arguments, returnValue, database, parserState>>

\* The selection of the last URL and of one other, and the reversal.
Select ==
    /\ main.pc = "select"
    /\ \E other \in getRandom(0, Len(main.pdfUrls) - 1) \cup {0}, coin \in getRandom(0, 2) :
           main' = [main EXCEPT !.selectedPdfUrls = SelectPdfUrls(main.pdfUrls, other, coin),
                                !.pdfUrls = Pop(@),
                                !.index = 1,
                                !.pc = "parse"]
    /\ UNCHANGED <<pc, arguments, returnValue, database, parserState>>

\* The head of the loop over selectedPdfUrls: parsePdf(pdfUrl) is called and requests
\* the document.
CallParsePdf ==
    /\ main.pc = "parse" /\ main.index <= Len(main.selectedPdfUrls)
    /\ pdf' \in ServedDocuments
    /\ pc' = "loop"
    /\ pageIndex' = 0 /\ page' = Undefined
    /\ cells' = <<>> /\ elements' = <<>> /\ rows' = <<>>
    /\ headings' = NoHeadingCells /\ rowIndex' = 0
    /\ walk' = WalkStart /\ horizontalLines' = <<>> /\ verticalLines' = <<>>
    /\ outcome' = "none" /\ developmentApplications' = <<>> /\ returned' = Undefined
    /\ log' = <<>>
    /\ main' = [main EXCEPT !.pc = "parsing", !.console = Append(@, "Parsing")]
    /\ UNCHANGED <<walker, gazetteer, arguments, returnValue, database>>

\* parsePdf has resolved: the loop over the records it returned begins.
AwaitParsePdf ==
    /\ main.pc = "parsing" /\ pc = "returned"
    /\ main' = [main EXCEPT !.pc = "inserting", !.inserted = 0, !.console = Append(@, "Parsed")]
    /\ UNCHANGED <<pc, arguments, returnValue, database, parserState>>

\* await insertRow(database, developmentApplication), for the next record.
AwaitInsertRow ==
    /\ main.pc = "inserting" /\ main.inserted < Len(Get(returned))
    /\ database' = insertOrIgnore(database, Row(Get(returned)[main.inserted + 1]))
    /\ main' = [main EXCEPT !.inserted = @ + 1]
    /\ UNCHANGED <<pc, arguments, returnValue, parserState>>

\* The end of the loop over the records: the next URL.
NextPdfUrl ==
    /\ main.pc = "inserting" /\ main.inserted = Len(Get(returned))
    /\ main' = [main EXCEPT !.pc = "parse", !.index = @ + 1]
    /\ pc' = "idle"
    /\ UNCHANGED <<arguments, returnValue, database, parserState>>

\* main().then(() => console.log("Complete.")).
Complete ==
    /\ main.pc = "parse" /\ main.index > Len(main.selectedPdfUrls)
    /\ main' = [main EXCEPT !.pc = "complete", !.console = Append(@, "Complete")]
    /\ UNCHANGED <<pc, arguments, returnValue, database, parserState>>

\* .catch(error => console.error(error)): parsePdf has rejected and main with it.
CatchError ==
    /\ main.pc = "parsing" /\ pc = "rejected"
    /\ main' = [main EXCEPT !.pc = "failed", !.console = Append(@, "Error")]
    /\ UNCHANGED <<pc, arguments, returnValue, database, parserState>>

NextMain ==
    \/ AwaitInitializeDatabase
    \/ ReadAddressInformation
    \/ RequestPage
    \/ Select
    \/ CallParsePdf
    \/ GetPage
    \/ ParseCells
    \/ ParseElements
    \/ InvertCoordinates
    \/ SortCellsAndElements
    \/ Allocate
    \/ GroupRows
    \/ SortRows
    \/ FindHeadings
    \/ NextRow
    \/ Return
    \/ AwaitParsePdf
    \/ AwaitInsertRow
    \/ NextPdfUrl
    \/ Complete
    \/ CatchError

SpecMain == InitMain /\ [][NextMain]_vars

\* ------------------------------------------------------------------ properties of main

NoDuplicates(array) == \A i, j \in 1..Len(array) : array[i] = array[j] => i = j
Elements(array) == {array[i] : i \in 1..Len(array)}
Written(line) == Cardinality({i \in 1..Len(main.console) : main.console[i] = line})
LastCollected == main.pdfUrls[Len(main.pdfUrls)]
AllInserted(applications) ==
    \A i \in 1..Len(applications) : HasRow(database, applications[i].applicationNumber)

\* C30: main parses at most two documents in a run.  The URLs collected from the links
\* of the page are URLs of register documents and none is collected twice; the last
\* URL collected is always selected; at most one other URL is selected, and it is one
\* of the collected URLs and not the last; the two are parsed in either order; when no
\* URL is collected no document is parsed and no row is inserted; and when the next
\* document is parsed, every record of the document before is in the table.
C30_AtMostTwoDocuments ==
    /\ [](/\ Written("Parsing") <= Len(main.selectedPdfUrls)
          /\ Len(main.selectedPdfUrls) <= 2
          /\ NoDuplicates(main.pdfUrls)
          /\ NoDuplicates(main.selectedPdfUrls)
          /\ main.pc \in {"parsing", "inserting"} => main.index \in 1..Len(main.selectedPdfUrls)
          /\ Written("NoPdfUrls") > 0 =>
                 main.selectedPdfUrls = <<>> /\ Written("Parsing") = 0 /\ pdf = <<>>)
    /\ [][/\ main.pc = "request" =>
                 Elements(main'.pdfUrls)
                     = {pdfUrl \in {Href(href, DevelopmentApplicationsUrl) : href \in Elements(main.links)} :
                            IsRegisterPdf(pdfUrl)}
          /\ main.pc = "select" =>
                 /\ LastCollected \in Elements(main'.selectedPdfUrls)
                 /\ Elements(main'.selectedPdfUrls) \ {LastCollected}
                        \subseteq Elements(main.pdfUrls) \ {LastCollected}
                 /\ Len(main'.selectedPdfUrls) = IF Len(main.pdfUrls) > 1 THEN 2 ELSE 1
          /\ pdf' # pdf => main.pc = "parse" /\ main'.pc = "parsing"
          /\ database' # database => main.pc = "inserting" /\ main'.pc = "inserting"
          /\ (main.pc = "parse" /\ main'.pc = "parsing" /\ main.index > 1) =>
                 IsDefined(returned) /\ AllInserted(Get(returned))
          /\ Written("Parsing")' # Written("Parsing") =>
                 /\ Written("Parsing")' = Written("Parsing") + 1
                 /\ main.pc = "parse" /\ main'.pc = "parsing"]_vars
    /\ [](main.pc = "select" /\ Len(main.pdfUrls) > 1 =>
              /\ ENABLED (Select /\ main'.selectedPdfUrls[1] = LastCollected)
              /\ ENABLED (Select /\ main'.selectedPdfUrls[2] = LastCollected))

C30_SecondDocumentAfterInserts ==
    /\ main.pc = "parsing" /\ main.index = 2
    /\ main.selectedPdfUrls[2] = <<"h", "t", "t", "p", "s", ":", "/", "/", "w", "w", "w", ".", "l", "o", "w", "e", "r", "e", "y", "r", "e", "p", "e", "n", "i", "n", "s", "u", "l", "a", ".", "s", "a", ".", "g", "o", "v", ".", "a", "u", "/", "f", "i", "l", "e", "s", "/", "R", "E", "G", "I", "S", "T", "E", "R", "2", "0", "1", "8", ".", "P", "D", "F">>
    /\ main.selectedPdfUrls[1] = <<"h", "t", "t", "p", "s", ":", "/", "/", "w", "w", "w", ".", "l", "o", "w", "e", "r", "e", "y", "r", "e", "p", "e", "n", "i", "n", "s", "u", "l", "a", ".", "s", "a", ".", "g", "o", "v", ".", "a", "u", "/", "f", "i", "l", "e", "s", "/", "R", "e", "g", "i", "s", "t", "e", "r", "2", "0", "1", "9", ".", "p", "d", "f">>
    /\ Len(main.pdfUrls) = 2
    /\ Len(database) = 3
    /\ Written("Parsing") = 2

\* ---- properties of what is read only ----

GazetteerRead ==
    /\ StreetNames = readAddressInformation.StreetNames
    /\ StreetSuffixes = readAddressInformation.StreetSuffixes
    /\ SuburbNames = readAddressInformation.SuburbNames
BeforeGazetteer == main.pc \in {"initializeDatabase", "readAddressInformation"}
OwnedBy(k) == SelectSeq(elements, LAMBDA element : OwnerCell(element, cells) = k)

\* C26: the three tables of the gazetteer are null until readAddressInformation has
\* run, which it does once, before any document is requested; from then on they are
\* what readAddressInformation read, through every step of parsePdf, formatAddress
\* and formatStreetName included.  The elements list of a cell is empty until the
\* binding, which appends to it the elements the cell owns in the order of the loop,
\* and no later step of the page changes it; the text elements are reordered by the
\* sort that follows the inversion and changed by no step after it.
C26_ReadOnlyAfterLoading ==
    /\ [](IF BeforeGazetteer
          THEN /\ StreetNames = Undefined /\ StreetSuffixes = Undefined /\ SuburbNames = Undefined
               /\ pdf = <<>> /\ pc = "idle"
          ELSE GazetteerRead)
    /\ [][/\ gazetteer' # gazetteer => main.pc = "readAddressInformation"
          /\ main'.pc = "readAddressInformation" => main.pc = "initializeDatabase"
          /\ main'.pc = "initializeDatabase" => main.pc = "initializeDatabase"]_vars
    /\ [](pc \in {"parseElements", "invert", "sort", "allocate"} =>
              \A k \in 1..Len(cells) : cells[k].elements = <<>>)
    /\ [][/\ pc \in {"invert", "sort"} =>
                 \A k \in 1..Len(cells') : cells'[k].elements = <<>>
          /\ pc = "allocate" =>
                 /\ Placed(cells') = Placed(cells)
                 /\ \A k \in 1..Len(cells) : cells'[k].elements = OwnedBy(k)
          /\ pc \in {"group", "sortRows", "headings", "rows"} => cells' = cells
          /\ pc = "sort" => SameBag(elements', elements)
          /\ pc \in {"allocate", "group", "sortRows", "headings", "rows"} =>
                 elements' = elements]_vars

C26_BoundInOrderAfterLoading ==
    /\ main.pc = "parsing" /\ main.index = 2 /\ pc = "rows"
    /\ GazetteerRead
    /\ \E k \in 1..Len(cells) :
           /\ Len(cells[k].elements) = 2
           /\ cells[k].elements[1].x < cells[k].elements[2].x
    /\ rowIndex = 2
====
